---- MODULE Spec2Model ----
(***************************************************************************)
(* Model of the invoice mutation workflow and the credential login of the  *)
(* dashboard application: the server actions createInvoice, updateInvoice, *)
(* deleteInvoice and authenticate of /app/lib/actions.ts, the FormSchema   *)
(* validation they run, the credential check of /auth.ts and the           *)
(* ErrorMessages component, as listed in src/README.md.                    *)
(*                                                                         *)
(* Form values are what FormData.get returns: null, or a string.  Amount   *)
(* strings are sequences of characters, converted as JavaScript's          *)
(* Number(...) converts them, to an IEEE-754 double: a 53-bit significand  *)
(* (most significant bit first) and the exponent of its leading bit.       *)
(***************************************************************************)
EXTENDS Integers, Sequences, FiniteSets, TLC

----------------------------------------------------------------------------
(* Bounds of the model *)

\* Number of server-action runs that may be in flight at the same time.
MaxRuns == 1
\* Number of identifiers the database hands out to inserted invoices.
MaxIds == 2
\* Longest amount string enumerated over AmountAlphabet.
MaxAmountLen == 4
MaxMessages == 2
\* Most redirects a client follows in a row.
MaxHops == 3

----------------------------------------------------------------------------
(* IEEE-754 binary64 arithmetic, as far as amount * 100 needs it *)

\* Width of the significand of a JavaScript number.
SignificandBits == 53

RECURSIVE Pow10(_)
Pow10(k) == IF k = 0 THEN 1 ELSE 10 * Pow10(k - 1)

RECURSIVE NatBits(_)
\* Binary digits of a natural number, most significant first; << >> for 0.
NatBits(n) == IF n = 0 THEN << >> ELSE Append(NatBits(n \div 2), n % 2)

Reverse(s) == [i \in 1..Len(s) |-> s[Len(s) + 1 - i]]

Zeros(n) == [i \in 1..n |-> 0]

RECURSIVE StripLeadingZeros(_)
StripLeadingZeros(b) ==
    IF b # << >> /\ Head(b) = 0 THEN StripLeadingZeros(Tail(b)) ELSE b

RECURSIVE AddLsb(_, _, _)
\* Ripple-carry sum of two equally long bit strings, least significant first.
AddLsb(a, b, carry) ==
    IF a = << >>
    THEN IF carry = 1 THEN <<1>> ELSE << >>
    ELSE LET s == Head(a) + Head(b) + carry
         IN  <<s % 2>> \o AddLsb(Tail(a), Tail(b), s \div 2)

\* Sum of two bit strings, most significant first, without leading zeros.
AddBits(a, b) ==
    LET n  == IF Len(a) > Len(b) THEN Len(a) ELSE Len(b)
        pa == Zeros(n - Len(a)) \o a
        pb == Zeros(n - Len(b)) \o b
    IN  StripLeadingZeros(Reverse(AddLsb(Reverse(pa), Reverse(pb), 0)))

\* Round (to nearest, ties to even) a bit string whose leading bit is 1 and
\* has weight 2^e to SignificandBits bits; sticky tells that nonzero bits
\* follow the string.
RoundBits(bits, e, sticky) ==
    IF Len(bits) <= SignificandBits
    THEN [neg |-> FALSE, kind |-> "fin", e |-> e,
          m |-> bits \o Zeros(SignificandBits - Len(bits))]
    ELSE LET keep  == SubSeq(bits, 1, SignificandBits)
             guard == bits[SignificandBits + 1]
             rest  == sticky \/ \E i \in (SignificandBits + 2)..Len(bits) : bits[i] = 1
             up    == guard = 1 /\ (rest \/ keep[SignificandBits] = 1)
             inc   == IF up THEN AddBits(keep, <<1>>) ELSE keep
         IN  IF Len(inc) > SignificandBits
             THEN [neg |-> FALSE, kind |-> "fin", e |-> e + 1,
                   m |-> SubSeq(inc, 1, SignificandBits)]
             ELSE [neg |-> FALSE, kind |-> "fin", e |-> e, m |-> inc]

RECURSIVE FractionBits(_, _, _, _)
\* Long division rem / den in binary: appends quotient bits to acc until it
\* holds SignificandBits + 1 bits counted from its first 1; e is the weight
\* exponent of the first bit of acc once acc is non-empty, and of the next
\* bit to come while it is empty.  Returns the bits, e and the remainder.
FractionBits(acc, e, rem, den) ==
    IF Len(acc) > SignificandBits \/ rem = 0
    THEN [bits |-> acc, e |-> e, rem |-> rem]
    ELSE LET bit == IF 2 * rem >= den THEN 1 ELSE 0
             r2  == 2 * rem - bit * den
         IN  IF acc = << >> /\ bit = 0
             THEN FractionBits(acc, e - 1, r2, den)
             ELSE FractionBits(Append(acc, bit), e, r2, den)

NaN == [neg |-> FALSE, kind |-> "nan", e |-> 0, m |-> << >>]
Infinity(neg) == [neg |-> neg, kind |-> "inf", e |-> 0, m |-> << >>]
Zero(neg) == [neg |-> neg, kind |-> "zero", e |-> 0, m |-> << >>]

\* The double nearest to n / 10^k, for naturals n and k.
DecimalToDouble(n, k) ==
    IF n = 0 THEN Zero(FALSE)
    ELSE LET den  == Pow10(k)
             ip   == NatBits(n \div den)
             e0   == IF ip = << >> THEN -1 ELSE Len(ip) - 1
             q    == FractionBits(ip, e0, n % den, den)
         IN  RoundBits(q.bits, q.e, q.rem # 0)

Negate(d) == [d EXCEPT !.neg = ~d.neg]

ShiftLeft(bits, n) == bits \o Zeros(n)

\* The double d * 100, for d not negative: 100 = 64 + 32 + 4.
Times100(d) ==
    IF d.kind # "fin" THEN d
    ELSE LET p == AddBits(AddBits(ShiftLeft(d.m, 6), ShiftLeft(d.m, 5)),
                          ShiftLeft(d.m, 2))
         IN  RoundBits(p, d.e - (SignificandBits - 1) + (Len(p) - 1), FALSE)

\* Variant of GreaterThanZero: d >= 0, as .gte(0) or .nonnegative() would test.
NotNegative(d) == d.kind \in {"fin", "inf", "zero"} /\ ~d.neg

\* d > 0, as JavaScript compares numbers (false for NaN and both zeros).
GreaterThanZero(d) == d.kind \in {"fin", "inf"} /\ ~d.neg

\* d is a finite number without a fractional part.
IsInteger(d) ==
    \/ d.kind = "zero"
    \/ /\ d.kind = "fin"
       /\ \A i \in 1..SignificandBits : d.e - (i - 1) < 0 => d.m[i] = 0

RECURSIVE BitsValue(_)
BitsValue(b) == IF b = << >> THEN 0 ELSE 2 * BitsValue(SubSeq(b, 1, Len(b) - 1)) + b[Len(b)]

\* The integer part of a finite double below 2^31, sign included.
IntegerPart(d) ==
    IF d.kind # "fin" \/ d.e < 0 THEN 0
    ELSE LET v == BitsValue(SubSeq(d.m, 1, d.e + 1))
         IN  IF d.neg THEN -v ELSE v

\* d is an integer a 4-byte integer column can hold.
FitsInt4(d) == IsInteger(d) /\ (d.kind = "fin" => d.e < 31)

----------------------------------------------------------------------------
(* Form values and JavaScript's Number(value) *)

\* What FormData.get returns: null for a missing field, else a string.
Null == [t |-> "null"]
Str(v) == [t |-> "str", v |-> v]

Digits == {"0", "1", "2", "3", "4", "5", "6", "7", "8", "9"}

DigitValue ==
    "0" :> 0 @@ "1" :> 1 @@ "2" :> 2 @@ "3" :> 3 @@ "4" :> 4 @@
    "5" :> 5 @@ "6" :> 6 @@ "7" :> 7 @@ "8" :> 8 @@ "9" :> 9

\* The characters the string-to-number conversion is modelled for: none of
\* them starts an exponent part or a hexadecimal, octal or binary literal.
KnownChars == Digits \cup {".", "-", "+", "a", "$", ",", "I", "n", "f", "i", "t", "y"}

InfinityLiteral == <<"I", "n", "f", "i", "n", "i", "t", "y">>

RECURSIVE DigitsValue(_)
DigitsValue(ds) ==
    IF ds = << >> THEN 0
    ELSE 10 * DigitsValue(SubSeq(ds, 1, Len(ds) - 1)) + DigitValue[ds[Len(ds)]]

\* StringToNumber of ECMAScript on a string of KnownChars (a sequence of
\* characters): the empty string is 0; an optional sign, then Infinity or
\* digits with at most one point and at least one digit; anything else NaN.
StringToNumber(s) ==
    IF s = << >> THEN Zero(FALSE)
    ELSE LET signed == Head(s) \in {"-", "+"}
             neg    == Head(s) = "-"
             body   == IF signed THEN Tail(s) ELSE s
             points == {i \in 1..Len(body) : body[i] = "."}
             wellFormed ==
                 /\ \A i \in 1..Len(body) : body[i] \in Digits \cup {"."}
                 /\ Cardinality(points) <= 1
                 /\ \E i \in 1..Len(body) : body[i] \in Digits
             ds     == SelectSeq(body, LAMBDA c : c \in Digits)
             k      == IF points = {} THEN 0
                       ELSE Len(body) - (CHOOSE i \in points : TRUE)
             mag    == DecimalToDouble(DigitsValue(ds), k)
         IN  IF body = InfinityLiteral THEN Infinity(neg)
             ELSE IF ~wellFormed THEN NaN
             ELSE IF neg THEN Negate(mag) ELSE mag

\* Number(value) as z.coerce.number() applies it to a form value:
\* Number(null) is 0.
ToNumber(value) ==
    IF value.t = "null" THEN Zero(FALSE) ELSE StringToNumber(value.v)

----------------------------------------------------------------------------
(* FormSchema: CreateInvoice / UpdateInvoice .safeParse and .flatten() *)

StatusValues == {"pending", "paid"}

\* Issues of customerId: z.string({invalid_type_error}).
CustomerIdIssues(value) ==
    IF value.t = "str" THEN << >> ELSE <<"Please select a customer.">>

\* Issues of amount: z.coerce.number().gt(0, {message}).
AmountIssues(value) ==
    LET n == ToNumber(value)
    IN  IF n.kind = "nan" THEN <<"Expected number, received nan">>
        ELSE IF ~GreaterThanZero(n) THEN <<"Please enter an amount greater than $0.">>
        ELSE << >>

\* The message of zod's invalid_enum_value issue for the strings submitted.
InvalidEnumValue(received) ==
    CASE received = "Paid" ->
            "Invalid enum value. Expected 'pending' | 'paid', received 'Paid'"
      [] received = "" ->
            "Invalid enum value. Expected 'pending' | 'paid', received ''"

\* Variant of StatusIssues: z.string() in place of z.enum, any string passes.
StatusIssuesAnyString(value) ==
    IF value.t # "str" THEN <<"Please select an invoice status.">> ELSE << >>

\* Issues of status: z.enum(['pending', 'paid'], {invalid_type_error}).
StatusIssues(value) ==
    IF value.t # "str" THEN <<"Please select an invoice status.">>
    ELSE IF value.v \notin StatusValues
         THEN <<InvalidEnumValue(value.v)>>
         ELSE << >>

FieldNames == {"customerId", "amount", "status"}

FieldIssues(formData) ==
    [customerId |-> CustomerIdIssues(formData.customerId),
     amount     |-> AmountIssues(formData.amount),
     status     |-> StatusIssues(formData.status)]

\* error.flatten().fieldErrors: the fields that have issues, each with its
\* messages in order.
FieldErrors(formData) ==
    LET issues == FieldIssues(formData)
        failed == {f \in FieldNames : issues[f] # << >>}
    IN  [f \in failed |-> issues[f]]

\* safeParse of the three fields read from the form.
SafeParse(formData) ==
    LET errors == FieldErrors(formData)
    IN  IF DOMAIN errors = {}
        THEN [success |-> TRUE,
              data |-> [customerId |-> formData.customerId.v,
                        amount     |-> ToNumber(formData.amount),
                        status     |-> formData.status.v],
              errors |-> errors]
        ELSE [success |-> FALSE, data |-> Null, errors |-> errors]

----------------------------------------------------------------------------
(* State *)

VARIABLES
    invoices,   \* the invoices table: a set of rows
    nextId,     \* the identifier the database gives to the next inserted row
    cache,      \* the client cache of the rendering of /dashboard/invoices
    runs,       \* the server-action runs in flight, by request slot
    session,    \* the session of the client: Null, or the user signed in
    login,      \* the authenticate run of the client
    page,       \* the page request of the client
    form,       \* the invoice form of the client: its state and what it shows
    visit       \* the navigation of the client to /dashboard/invoices

vars == <<invoices, nextId, cache, runs, session, login, page, form, visit>>

\* What the mutation workflow leaves alone, and what the login does.
loginVars == <<session, login>>
mutationVars == <<invoices, nextId, cache, runs>>
pageVars == <<page, form, visit>>

Runs == 1..MaxRuns

\* The request slots of the server: one more than the runs of the
\* workflow above, for the requests that race one another.
Slots == 1..(MaxRuns + 1)

\* Customers the invoices table may reference.
Customers == {"c1", "c2"}

\* The invoice present when the application starts, and its identifier.
SeedId == 1
SeedInvoice ==
    [id |-> SeedId, customer_id |-> "c1", amount |-> 2000, status |-> "pending",
     date |-> "2024-01-01"]

\* Identifiers of the table: the seeded one and those handed out on insert.
LastId == SeedId + MaxIds
Ids == SeedId..LastId

\* new Date().toISOString().split('T')[0] during the runs modelled.
Today == "2024-06-01"

\* The form of a run that has none (deleteInvoice takes only an identifier).
NoForm == [customerId |-> Null, amount |-> Null, status |-> Null]

NoStmt == [op |-> "none", id |-> 0, customer_id |-> "", amount |-> Zero(FALSE),
           status |-> "", date |-> ""]

NoResult == [outcome |-> "none", hasErrors |-> FALSE, errors |-> << >>,
             message |-> "undefined"]

\* A value a server action returns to useActionState.
Returned(hasErrors, errors, message) ==
    [outcome |-> "returned", hasErrors |-> hasErrors, errors |-> errors,
     message |-> message]

\* redirect() throws NEXT_REDIRECT: the action returns nothing.
RedirectThrown == [outcome |-> "redirected", hasErrors |-> FALSE, errors |-> << >>,
                   message |-> "undefined"]

IdleRun ==
    [pc |-> "Idle", kind |-> "none", formData |-> NoForm, stmt |-> NoStmt, sqlOk |-> FALSE,
     sqlError |-> "", changed |-> {}, result |-> NoResult, events |-> << >>,
     nav |-> "none", rows |-> {}, served |-> FALSE, view |-> {}]

StaleCache == [valid |-> FALSE, list |-> {}]

\* No navigation to /dashboard/invoices under way.
IdleVisit == [pc |-> "Idle", rows |-> {}]

\* No credentials submitted: both fields missing.
NoCredentials == [email |-> Null, password |-> Null]

\* A value thrown: its class and its type field.
AuthError(type) == [class |-> "AuthError", type |-> type]
OtherError(class, type) == [class |-> class, type |-> type]
NoError == [class |-> "none", type |-> "undefined"]

IdleLogin ==
    [pc |-> "Idle", credentials |-> NoCredentials, lookup |-> "none",
     compared |-> FALSE, passwordsMatch |-> FALSE, authorized |-> "none",
     thrown |-> NoError, result |-> "undefined", rethrown |-> NoError]

\* The errors prop of a state without an errors key.
Undefined == [t |-> "undefined"]

\* const initialState: State = { message: null, errors: {} }
InitialState ==
    [outcome |-> "initial", hasErrors |-> TRUE, errors |-> << >>, message |-> "null"]

\* state.errors
ErrorsOf(state) == IF state.hasErrors THEN state.errors ELSE Undefined

\* `${id}-error`
ContainerId(id) ==
    CASE id = "customerId" -> "customerId-error"
      [] id = "amount"     -> "amount-error"
      [] id = "status"     -> "status-error"

\* <p key={error}>{error}</p>
Paragraph(error) == [tag |-> "p", key |-> error, text |-> error]

\* Variant of ErrorMessages: the messages of every field, id ignored.
ErrorMessagesOfEveryField(errors, id) ==
    LET ListOf(f) == IF errors = Undefined \/ f \notin DOMAIN errors THEN << >>
                     ELSE errors[f]
        errMsg == ListOf("customerId") \o ListOf("amount") \o ListOf("status")
    IN  [id |-> ContainerId(id),
         children |-> [i \in 1..Len(errMsg) |-> Paragraph(errMsg[i])]]

\* ErrorMessages({errors, id}): the div and its paragraphs, one for each
\* message of !errors ? [] : (errors[id] ?? []).
ErrorMessages(errors, id) ==
    LET errMsg == IF errors = Undefined THEN << >>
                  ELSE IF id \in DOMAIN errors THEN errors[id] ELSE << >>
    IN  [id |-> ContainerId(id),
         children |-> [i \in 1..Len(errMsg) |-> Paragraph(errMsg[i])]]

\* What a form shows before its first render.
NotRendered == << >>

\* The form with the given state: one ErrorMessages for each field.
FormWith(state) ==
    [state |-> state,
     rendered |-> [id \in FieldNames |-> ErrorMessages(ErrorsOf(state), id)]]

\* No page: the client has requested none, or has been answered.
IdlePage ==
    [pc |-> "Idle", path |-> << >>, auth |-> Null, verdict |-> "none", route |-> "none",
     id |-> << >>, invoice |-> Null, rejected |-> FALSE, view |-> "none",
     hops |-> 0, redirected |-> Null]

Init ==
    /\ invoices = {SeedInvoice}
    /\ nextId = SeedId + 1
    /\ cache = StaleCache
    /\ runs = [r \in Slots |-> IdleRun]
    /\ session = Null
    /\ login = IdleLogin
    /\ page = IdlePage
    /\ form = FormWith(InitialState)
    /\ visit = IdleVisit

----------------------------------------------------------------------------
(* The database: one statement against the invoices table *)

\* The statement violates no constraint of the table: the amount column
\* holds integers, and the customer_id of a row written references an
\* existing customer.
SatisfiesConstraints(table, stmt) ==
    CASE stmt.op = "insert" -> FitsInt4(stmt.amount) /\ stmt.customer_id \in Customers
      [] stmt.op = "update" ->
            /\ FitsInt4(stmt.amount)
            /\ (\E row \in table : row.id = stmt.id) => stmt.customer_id \in Customers
      [] OTHER -> TRUE

\* Variant of RowsTouched: the UPDATE sets the date of the row as well.
RowsTouchedRestamping(table, stmt, newId) ==
    CASE stmt.op = "insert" ->
            {[id |-> newId, customer_id |-> stmt.customer_id,
              amount |-> IntegerPart(stmt.amount), status |-> stmt.status,
              date |-> stmt.date]}
      [] stmt.op = "update" ->
            {[row EXCEPT !.customer_id = stmt.customer_id,
                         !.amount = IntegerPart(stmt.amount),
                         !.status = stmt.status,
                         !.date = Today] : row \in {x \in table : x.id = stmt.id}}
      [] OTHER -> {x \in table : x.id = stmt.id}

\* The rows a statement that succeeds writes or removes.
RowsTouched(table, stmt, newId) ==
    CASE stmt.op = "insert" ->
            {[id |-> newId, customer_id |-> stmt.customer_id,
              amount |-> IntegerPart(stmt.amount), status |-> stmt.status,
              date |-> stmt.date]}
      [] stmt.op = "update" ->
            {[row EXCEPT !.customer_id = stmt.customer_id,
                         !.amount = IntegerPart(stmt.amount),
                         !.status = stmt.status] : row \in {x \in table : x.id = stmt.id}}
      [] OTHER -> {x \in table : x.id = stmt.id}

\* Variant of Apply: the DELETE without its WHERE clause.
ApplyDeletingEveryRow(table, stmt, newId) ==
    CASE stmt.op = "insert" -> table \cup RowsTouched(table, stmt, newId)
      [] stmt.op = "update" ->
            {x \in table : x.id # stmt.id} \cup RowsTouched(table, stmt, newId)
      [] OTHER -> {}

\* The table after a statement that succeeds.
Apply(table, stmt, newId) ==
    CASE stmt.op = "insert" -> table \cup RowsTouched(table, stmt, newId)
      [] stmt.op = "update" ->
            {x \in table : x.id # stmt.id} \cup RowsTouched(table, stmt, newId)
      [] OTHER -> {x \in table : x.id # stmt.id}

\* The text of the error the database raises for a statement it fails.
ErrorText(fault) ==
    IF fault THEN "connection terminated unexpectedly"
    ELSE "violates a constraint of relation invoices"

\* Variant of SqlExec: the statement and its parameters are kept in a
\* variable of the module that every request writes, and the database is
\* handed what the variable holds.
SqlExecSharedStatement(r) ==
    /\ runs[r].pc = "Persisting"
    /\ \E fault \in BOOLEAN :
         LET last == CHOOSE q \in Slots :
                        /\ runs[q].pc = "Persisting"
                        /\ \A p \in Slots : runs[p].pc = "Persisting" => p <= q
             stmt == runs[last].stmt
             ok   == ~fault /\ SatisfiesConstraints(invoices, stmt)
         IN  /\ invoices' = IF ok THEN Apply(invoices, stmt, nextId) ELSE invoices
             /\ nextId' = IF ok /\ stmt.op = "insert" THEN nextId + 1 ELSE nextId
             /\ runs' = [runs EXCEPT ![r].pc = "SqlDone",
                                     ![r].sqlOk = ok,
                                     ![r].sqlError = IF ok THEN "" ELSE ErrorText(fault),
                                     ![r].changed =
                                        IF ok THEN RowsTouched(invoices, stmt, nextId) ELSE {},
                                     ![r].events = Append(@, "sql")]
    /\ UNCHANGED <<cache, loginVars, pageVars>>

\* The database answers the statement run r awaits: it commits it, or it
\* fails it (a violated constraint, or a fault such as lost connectivity)
\* and leaves the table as it was.
SqlExec(r) ==
    /\ runs[r].pc = "Persisting"
    /\ \E fault \in BOOLEAN :
         LET stmt == runs[r].stmt
             ok   == ~fault /\ SatisfiesConstraints(invoices, stmt)
         IN  /\ invoices' = IF ok THEN Apply(invoices, stmt, nextId) ELSE invoices
             /\ nextId' = IF ok /\ stmt.op = "insert" THEN nextId + 1 ELSE nextId
             /\ runs' = [runs EXCEPT ![r].pc = "SqlDone",
                                     ![r].sqlOk = ok,
                                     ![r].sqlError = IF ok THEN "" ELSE ErrorText(fault),
                                     ![r].changed =
                                        IF ok THEN RowsTouched(invoices, stmt, nextId) ELSE {},
                                     ![r].events = Append(@, "sql")]
    /\ UNCHANGED <<cache, loginVars, pageVars>>

----------------------------------------------------------------------------
(* The routing and caching hooks *)

\* revalidatePath('/dashboard/invoices'): the client cache is cleared.
RevalidatePath(c) == StaleCache

\* The run in slot r has called revalidatePath.
Revalidated(r) ==
    \E i \in DOMAIN runs[r].events : runs[r].events[i] = "revalidatePath"

\* The client cache once a rendering has been delivered: the client keeps
\* the rendering, or it does not.
CacheAfterRender(c, rows) == {c, [valid |-> TRUE, list |-> rows]}

\* The client navigates to /dashboard/invoices: it is shown the rendering
\* its cache holds, or it requests the page of the server.
VisitInvoicesPage ==
    /\ visit.pc \in {"Idle", "Shown"}
    /\ visit' = IF cache.valid THEN [pc |-> "Shown", rows |-> {}]
                ELSE [pc |-> "Requested", rows |-> {}]
    /\ UNCHANGED <<invoices, nextId, cache, runs, loginVars, page, form>>

\* The server renders the page requested: its component queries the table
\* and awaits the rows.
InvoicesPageQuery ==
    /\ visit.pc = "Requested"
    /\ visit' = [pc |-> "Awaiting", rows |-> invoices]
    /\ UNCHANGED <<invoices, nextId, cache, runs, loginVars, page, form>>

\* The rows awaited arrive: the rendering made from them is delivered.
InvoicesPageResume ==
    /\ visit.pc = "Awaiting"
    /\ visit' = [pc |-> "Shown", rows |-> {}]
    /\ cache' \in CacheAfterRender(cache, visit.rows)
    /\ UNCHANGED <<invoices, nextId, runs, loginVars, page, form>>

\* The client of the run in slot r, redirected, navigates to
\* /dashboard/invoices.  After revalidatePath the navigation makes a new
\* request to the server; without it the client is shown the rendering its
\* cache holds.
ServeRedirect(r) ==
    /\ runs[r].pc = "Redirected"
    /\ ~runs[r].served
    /\ runs[r].nav = "none"
    /\ runs' = IF Revalidated(r) \/ ~cache.valid
               THEN [runs EXCEPT ![r].nav = "Requested"]
               ELSE [runs EXCEPT ![r].served = TRUE, ![r].view = cache.list]
    /\ UNCHANGED <<invoices, nextId, cache, loginVars, pageVars>>

\* The server renders the page the redirected client requested: its
\* component queries the table and awaits the rows.
ServeRedirectQuery(r) ==
    /\ runs[r].nav = "Requested"
    /\ runs' = [runs EXCEPT ![r].nav = "Awaiting", ![r].rows = invoices]
    /\ UNCHANGED <<invoices, nextId, cache, loginVars, pageVars>>

\* The rows the redirected client's request awaits arrive: the rendering
\* made from them is delivered.
ServeRedirectResume(r) ==
    /\ runs[r].nav = "Awaiting"
    /\ runs' = [runs EXCEPT ![r].nav = "none", ![r].rows = {},
                            ![r].served = TRUE, ![r].view = runs[r].rows]
    /\ cache' \in CacheAfterRender(cache, runs[r].rows)
    /\ UNCHANGED <<invoices, nextId, loginVars, pageVars>>

\* The database has an identifier left for every INSERT awaited and for
\* one more.
IdsLeft ==
    nextId + Cardinality({r \in Slots : runs[r].pc = "Persisting" /\ runs[r].stmt.op = "insert"})
        <= LastId

----------------------------------------------------------------------------
(* The server actions of /app/lib/actions.ts *)

\* const amountInCents = amount * 100;
AmountInCents(amount) == Times100(amount)

\* The INSERT statement of createInvoice with its bound parameters.
InsertStmt(data) ==
    [op |-> "insert", id |-> 0, customer_id |-> data.customerId,
     amount |-> AmountInCents(data.amount), status |-> data.status, date |-> Today]

\* The UPDATE statement of updateInvoice with its bound parameters.
UpdateStmt(id, data) ==
    [op |-> "update", id |-> id, customer_id |-> data.customerId,
     amount |-> AmountInCents(data.amount), status |-> data.status, date |-> ""]

\* The DELETE statement of deleteInvoice with its bound parameter.
DeleteStmt(id) == [NoStmt EXCEPT !.op = "delete", !.id = id]

\* Slot r holds no run.
Idle(r) == runs[r].pc = "Idle"

\* The states in which a run has ended.
TerminalPcs == {"Invalid", "PersistFailed", "Redirected", "Deleted"}

\* Variant of CreateInvoice: validation also rejects a form whose invoice
\* the table already holds.
CreateInvoiceRejectingDuplicates(r, formData) ==
    /\ Idle(r)
    /\ LET validatedFields == SafeParse(formData)
           duplicate ==
               /\ validatedFields.success
               /\ \E row \in invoices :
                     /\ row.customer_id = validatedFields.data.customerId
                     /\ row.status = validatedFields.data.status
                     /\ FitsInt4(AmountInCents(validatedFields.data.amount))
                     /\ row.amount = IntegerPart(AmountInCents(validatedFields.data.amount))
       IN  runs' = [runs EXCEPT ![r] =
              IF ~validatedFields.success \/ duplicate
              THEN [IdleRun EXCEPT
                      !.pc = "Invalid", !.kind = "create", !.formData = formData,
                      !.result = Returned(TRUE,
                                          IF duplicate
                                          THEN [f \in {"customerId"} |->
                                                  <<"Invoice already exists.">>]
                                          ELSE validatedFields.errors,
                                          "Missing Fields. Failed to Create Invoice.")]
              ELSE [IdleRun EXCEPT
                      !.pc = "Persisting", !.kind = "create", !.formData = formData,
                      !.stmt = InsertStmt(validatedFields.data)]]
    /\ UNCHANGED <<invoices, nextId, cache, loginVars, pageVars>>

\* createInvoice(prevState, formData) up to its await of the INSERT:
\* validation, the early return on failure, the preparation of the data.
CreateInvoice(r, formData) ==
    /\ Idle(r)
    /\ LET validatedFields == SafeParse(formData)
       IN  runs' = [runs EXCEPT ![r] =
              IF ~validatedFields.success
              THEN [IdleRun EXCEPT
                      !.pc = "Invalid", !.kind = "create", !.formData = formData,
                      !.result = Returned(TRUE, validatedFields.errors,
                                          "Missing Fields. Failed to Create Invoice.")]
              ELSE [IdleRun EXCEPT
                      !.pc = "Persisting", !.kind = "create", !.formData = formData,
                      !.stmt = InsertStmt(validatedFields.data)]]
    /\ UNCHANGED <<invoices, nextId, cache, loginVars, pageVars>>

\* updateInvoice(id, prevState, formData) up to its await of the UPDATE.
UpdateInvoice(r, id, formData) ==
    /\ Idle(r)
    /\ LET validatedFields == SafeParse(formData)
       IN  runs' = [runs EXCEPT ![r] =
              IF ~validatedFields.success
              THEN [IdleRun EXCEPT
                      !.pc = "Invalid", !.kind = "update", !.formData = formData,
                      !.result = Returned(TRUE, validatedFields.errors,
                                          "Missing Fields. Failed to Update Invoice.")]
              ELSE [IdleRun EXCEPT
                      !.pc = "Persisting", !.kind = "update", !.formData = formData,
                      !.stmt = UpdateStmt(id, validatedFields.data)]]
    /\ UNCHANGED <<invoices, nextId, cache, loginVars, pageVars>>

\* deleteInvoice(id) up to its await of the DELETE.
DeleteInvoice(r, id) ==
    /\ Idle(r)
    /\ runs' = [runs EXCEPT ![r] =
                  [IdleRun EXCEPT !.pc = "Persisting", !.kind = "delete",
                                  !.stmt = DeleteStmt(id)]]
    /\ UNCHANGED <<invoices, nextId, cache, loginVars, pageVars>>

\* Variant of RevalidateAndRedirect: redirect without revalidatePath.
RedirectWithoutRevalidate(r) ==
    /\ cache' = cache
    /\ runs' = [runs EXCEPT ![r].pc = "Redirected",
                            ![r].result = RedirectThrown,
                            ![r].events = @ \o <<"redirect">>]

\* The end of createInvoice and of updateInvoice once the statement has
\* succeeded: revalidatePath, then redirect, which throws.
RevalidateAndRedirect(r) ==
    /\ cache' = RevalidatePath(cache)
    /\ runs' = [runs EXCEPT ![r].pc = "Redirected",
                            ![r].result = RedirectThrown,
                            ![r].events = @ \o <<"revalidatePath", "redirect">>]

\* Variant of ReturnDatabaseError: the catch block issues the statement
\* again.
ReturnDatabaseErrorRetrying(r, message) ==
    /\ runs' = [runs EXCEPT ![r].pc = "Persisting"]
    /\ UNCHANGED cache

\* Variant of ReturnDatabaseError: revalidatePath in a finally block.
ReturnDatabaseErrorRevalidating(r, message) ==
    /\ runs' = [runs EXCEPT ![r].pc = "PersistFailed",
                            ![r].result = Returned(FALSE, << >>, message),
                            ![r].events = Append(@, "revalidatePath")]
    /\ cache' = RevalidatePath(cache)

\* Variant of ReturnDatabaseError: the message carries the error's text.
ReturnDatabaseErrorLeaking(r, message) ==
    /\ runs' = [runs EXCEPT ![r].pc = "PersistFailed",
                            ![r].result = Returned(FALSE, << >>, runs[r].sqlError)]
    /\ UNCHANGED cache

\* Variant of ReturnDatabaseError: the message is returned as an error of
\* the amount field too.
ReturnDatabaseErrorAsFieldError(r, message) ==
    /\ runs' = [runs EXCEPT ![r].pc = "PersistFailed",
                            ![r].result = Returned(TRUE, [amount |-> <<message>>], message)]
    /\ UNCHANGED cache

\* The catch block of createInvoice and of updateInvoice.
ReturnDatabaseError(r, message) ==
    /\ runs' = [runs EXCEPT ![r].pc = "PersistFailed",
                            ![r].result = Returned(FALSE, << >>, message)]
    /\ UNCHANGED cache

\* createInvoice from the point its await of the INSERT settles.
CreateInvoiceResume(r) ==
    /\ runs[r].pc = "SqlDone"
    /\ runs[r].kind = "create"
    /\ IF runs[r].sqlOk
       THEN RevalidateAndRedirect(r)
       ELSE ReturnDatabaseError(r, "Database Error: Failed to Create Invoice.")
    /\ UNCHANGED <<invoices, nextId, loginVars, pageVars>>

\* updateInvoice from the point its await of the UPDATE settles.
UpdateInvoiceResume(r) ==
    /\ runs[r].pc = "SqlDone"
    /\ runs[r].kind = "update"
    /\ IF runs[r].sqlOk
       THEN RevalidateAndRedirect(r)
       ELSE ReturnDatabaseError(r, "Database Error: Failed to Update Invoice.")
    /\ UNCHANGED <<invoices, nextId, loginVars, pageVars>>

\* Variant of DeleteInvoiceResume: a DELETE that removed no row is reported
\* as a failure.
DeleteInvoiceResumeCheckingRows(r) ==
    /\ runs[r].pc = "SqlDone"
    /\ runs[r].kind = "delete"
    /\ IF runs[r].sqlOk /\ runs[r].changed # {}
       THEN /\ cache' = RevalidatePath(cache)
            /\ runs' = [runs EXCEPT ![r].pc = "Deleted",
                                    ![r].result = Returned(FALSE, << >>, "Deleted Invoice."),
                                    ![r].events = Append(@, "revalidatePath")]
       ELSE /\ runs' = [runs EXCEPT ![r].pc = "PersistFailed",
                                    ![r].result =
                                       Returned(FALSE, << >>,
                                                "Database Error: Failed to Delete Invoice.")]
            /\ UNCHANGED cache
    /\ UNCHANGED <<invoices, nextId, loginVars, pageVars>>

\* deleteInvoice from the point its await of the DELETE settles: inside the
\* try, revalidatePath and the return of the message; in the catch, the
\* return of the error message.
DeleteInvoiceResume(r) ==
    /\ runs[r].pc = "SqlDone"
    /\ runs[r].kind = "delete"
    /\ IF runs[r].sqlOk
       THEN /\ cache' = RevalidatePath(cache)
            /\ runs' = [runs EXCEPT ![r].pc = "Deleted",
                                    ![r].result = Returned(FALSE, << >>, "Deleted Invoice."),
                                    ![r].events = Append(@, "revalidatePath")]
       ELSE /\ runs' = [runs EXCEPT ![r].pc = "PersistFailed",
                                    ![r].result =
                                       Returned(FALSE, << >>,
                                                "Database Error: Failed to Delete Invoice.")]
            /\ UNCHANGED cache
    /\ UNCHANGED <<invoices, nextId, loginVars, pageVars>>

\* The response of an ended run has been delivered: its slot serves the
\* next request.
Finish(r) ==
    /\ runs[r].pc \in TerminalPcs
    /\ runs' = [runs EXCEPT ![r] = IdleRun]
    /\ UNCHANGED <<invoices, nextId, cache, loginVars, pageVars>>

----------------------------------------------------------------------------
(* Inputs *)

\* Forms submitted in the concurrent workflow: one that is valid, one with
\* every field missing or zero, one that passes validation and that the
\* database rejects, one whose amount and status are malformed.
Forms ==
    {[customerId |-> Str("c2"), amount |-> Str(<<"1", "0", ".", "5", "0">>),
      status |-> Str("paid")],
     [customerId |-> Null, amount |-> Str(<<"0">>), status |-> Null],
     [customerId |-> Str(""), amount |-> Str(<<"1", "0", ".", "5", "5", "5">>),
      status |-> Str("pending")],
     [customerId |-> Str("c1"), amount |-> Str(<<"a">>), status |-> Str("Paid")]}

\* Forms submitted in the workflow with renderings: one that is valid, one
\* with every field missing or zero, one whose amount and status are
\* malformed.
RenderForms ==
    {[customerId |-> Str("c2"), amount |-> Str(<<"1", "0", ".", "5", "0">>),
      status |-> Str("paid")],
     [customerId |-> Null, amount |-> Str(<<"0">>), status |-> Null],
     [customerId |-> Str("c1"), amount |-> Str(<<"a">>), status |-> Str("Paid")]}

\* Characters of the amount strings enumerated exhaustively.
AmountAlphabet == {"0", "1", "5", ".", "-"}

\* Amount strings named by the specification or not numbers at all.
SampleAmounts ==
    {<<"1", "0", ".", "5", "0">>, <<"1", "0", ".", "5", "5", "5">>,
     <<"0", ".", "0", "0", "1">>, <<"0", ".", "0", "7">>, <<"a">>, <<"$", "5">>,
     <<"1", ",", "5">>, InfinityLiteral, <<"-">> \o InfinityLiteral}

AmountStrings ==
    SampleAmounts \cup UNION {[1..n -> AmountAlphabet] : n \in 0..MaxAmountLen}

AmountInputs == {Null} \cup {Str(a) : a \in AmountStrings}

CustomerIdInputs == {Null, Str(""), Str("c1"), Str("abc")}

StatusInputs == {Null, Str("paid"), Str("pending"), Str("Paid"), Str("")}

\* Forms submitted by the requests that race one another: two that are
\* valid and differ in every field, and one that is not.
ConcurrentForms ==
    {[customerId |-> Str("c2"), amount |-> Str(<<"1", "0", ".", "5", "0">>),
      status |-> Str("paid")],
     [customerId |-> Str("c1"), amount |-> Str(<<"1", "5">>), status |-> Str("pending")],
     [customerId |-> Null, amount |-> Str(<<"0">>), status |-> Null]}

\* Every form of the validation specification.
AllForms ==
    {[customerId |-> c, amount |-> a, status |-> st] :
        c \in CustomerIdInputs, a \in AmountInputs, st \in StatusInputs}

----------------------------------------------------------------------------
(* The credential check of /auth.ts and authenticate of /app/lib/actions.ts *)

Letters ==
    {"a", "b", "c", "d", "e", "f", "g", "h", "i", "j", "k", "l", "m", "n", "o",
     "p", "q", "r", "s", "t", "u", "v", "w", "x", "y", "z"}

Alphanumerics == Letters \cup Digits

\* Characters of the local part of an address.
LocalChars == Alphanumerics \cup {"_", "'", "+", "-", "."}

\* The pieces of s between the occurrences of sep.
RECURSIVE Split(_, _)
Split(s, sep) ==
    IF \A i \in 1..Len(s) : s[i] # sep THEN <<s>>
    ELSE LET k == CHOOSE i \in 1..Len(s) :
                     s[i] = sep /\ \A j \in 1..(i - 1) : s[j] # sep
         IN  <<SubSeq(s, 1, k - 1)>> \o Split(SubSeq(s, k + 1, Len(s)), sep)

\* z.string().email() on a lower-case string: the pattern
\* ^(?!\.)(?!.*\.\.)([a-z0-9_'+\-\.]*)[a-z0-9_+-]@([a-z0-9][a-z0-9\-]*\.)+[a-z]{2,}$
IsEmail(s) ==
    LET parts  == Split(s, "@")
        local  == parts[1]
        labels == Split(parts[2], ".")
        tld    == labels[Len(labels)]
    IN  /\ Len(parts) = 2
        /\ local # << >>
        /\ \A i \in 1..Len(local) : local[i] \in LocalChars
        /\ local[Len(local)] \in Alphanumerics \cup {"_", "+", "-"}
        /\ s[1] # "."
        /\ \A i \in 1..(Len(s) - 1) : ~(s[i] = "." /\ s[i + 1] = ".")
        /\ Len(labels) >= 2
        /\ \A i \in 1..(Len(labels) - 1) :
              /\ labels[i] # << >>
              /\ labels[i][1] \in Alphanumerics
              /\ \A j \in 1..Len(labels[i]) : labels[i][j] \in Alphanumerics \cup {"-"}
        /\ Len(tld) >= 2
        /\ \A j \in 1..Len(tld) : tld[j] \in Letters

\* Shortest password z.string().min(6) accepts.
MinPasswordLength == 6

\* Variant of ParseCredentials: the schema without .min(6).
ParseCredentialsAnyPassword(credentials) ==
    /\ credentials.email.t = "str"
    /\ credentials.password.t = "str"
    /\ IsEmail(credentials.email.v)

\* safeParse of the credentials: both are strings, the email is an
\* address and the password has at least six characters.
ParseCredentials(credentials) ==
    /\ credentials.email.t = "str"
    /\ credentials.password.t = "str"
    /\ IsEmail(credentials.email.v)
    /\ Len(credentials.password.v) >= MinPasswordLength

\* A stored password: the salted hash bcrypt made of it.
Hash(password) == [bcrypt |-> password]

\* bcrypt.compare(password, hash).
Compare(password, hash) == hash = Hash(password)

UserEmail == <<"u", "@", "x", ".", "i", "o">>
UserPassword == <<"1", "2", "3", "4", "5", "6">>
OtherEmail == <<"v", "@", "x", ".", "i", "o">>
OtherPassword == <<"s", "e", "c", "r", "e", "t", "1">>

\* The users table.
Users ==
    {[email |-> UserEmail, password |-> Hash(UserPassword)],
     [email |-> OtherEmail, password |-> Hash(OtherPassword)]}

\* user.rows[0] of SELECT * FROM users WHERE email = ...: the rows found.
UsersWithEmail(email) == {u \in Users : u.email = email}

\* What signIn throws for what authorize did: CredentialsSignin when it
\* returned null, another AuthError when it threw, and, the session once
\* issued, the redirect when it returned a user.
SignInThrows(authorized) ==
    CASE authorized = "null"  -> AuthError("CredentialsSignin")
      [] authorized = "threw" -> AuthError("CallbackRouteError")
      [] OTHER                -> OtherError("NEXT_REDIRECT", "undefined")

\* Variant of AuthenticateResult: the two messages exchanged.
AuthenticateResultSwapped(thrown) ==
    IF thrown.class = "AuthError"
    THEN IF thrown.type = "CredentialsSignin" THEN "Something went wrong."
         ELSE "Invalid credentials."
    ELSE "undefined"

\* Variant of AuthenticateResult: the switch on error.type without the
\* instanceof test around it.
AuthenticateResultByTypeOnly(thrown) ==
    IF thrown.class = "none" THEN "undefined"
    ELSE IF thrown.type = "CredentialsSignin" THEN "Invalid credentials."
    ELSE IF thrown.class = "AuthError" THEN "Something went wrong."
    ELSE "undefined"

\* The value authenticate returns: the message of its catch block for an
\* AuthError, undefined when signIn threw nothing or when the catch block
\* rethrows.
AuthenticateResult(thrown) ==
    IF thrown.class = "AuthError"
    THEN IF thrown.type = "CredentialsSignin" THEN "Invalid credentials."
         ELSE "Something went wrong."
    ELSE "undefined"

\* throw error: what the catch block of authenticate rethrows.
AuthenticateRethrows(thrown) ==
    IF thrown.class \in {"AuthError", "none"} THEN NoError ELSE thrown

\* signIn has settled, throwing the given value or nothing: authenticate
\* returns or rethrows.
Catch(run, thrown) ==
    [run EXCEPT !.pc = "Done",
                !.thrown = thrown,
                !.result = AuthenticateResult(thrown),
                !.rethrown = AuthenticateRethrows(thrown)]

\* authorize has settled with the given outcome: signIn issues the session
\* or throws, and authenticate returns or rethrows.
Settle(run, authorized) ==
    Catch([run EXCEPT !.authorized = authorized], SignInThrows(authorized))

\* authenticate(prevState, formData), through signIn, to the first await of
\* authorize: rejected credentials return null at once, others are looked
\* up.  The login page is served only to a client without a session.
Authenticate(credentials) ==
    /\ login.pc = "Idle"
    /\ session = Null
    /\ login' = IF ParseCredentials(credentials)
                THEN [IdleLogin EXCEPT !.pc = "GetUser", !.credentials = credentials]
                ELSE Settle([IdleLogin EXCEPT !.credentials = credentials], "null")
    /\ UNCHANGED <<session, mutationVars, pageVars>>

\* The query of getUser settles: it fails and getUser throws, or it yields
\* the user with the email, if there is one.
GetUserSettles ==
    /\ login.pc = "GetUser"
    /\ \E fault \in BOOLEAN :
         LET found == UsersWithEmail(login.credentials.email.v)
         IN  login' =
               IF fault THEN Settle([login EXCEPT !.lookup = "failed"], "threw")
               ELSE IF found = {} THEN Settle([login EXCEPT !.lookup = "absent"], "null")
               ELSE [login EXCEPT !.pc = "Compare", !.lookup = "found"]
    /\ UNCHANGED <<session, mutationVars, pageVars>>

\* bcrypt.compare settles: on a match authorize returns the user and the
\* session is issued; otherwise it returns null.
CompareSettles ==
    /\ login.pc = "Compare"
    /\ LET user  == CHOOSE u \in UsersWithEmail(login.credentials.email.v) : TRUE
           match == Compare(login.credentials.password.v, user.password)
           run   == [login EXCEPT !.compared = TRUE, !.passwordsMatch = match]
       IN  /\ login' = Settle(run, IF match THEN "user" ELSE "null")
           /\ session' = IF match THEN Str(user.email) ELSE session
    /\ UNCHANGED <<mutationVars, pageVars>>

\* authenticate(prevState, formData) with signIn taken as a whole: it throws
\* the given value, or nothing.
AuthenticateCatching(credentials, thrown) ==
    /\ login.pc = "Idle"
    /\ login' = Catch([IdleLogin EXCEPT !.credentials = credentials], thrown)
    /\ UNCHANGED <<session, mutationVars, pageVars>>

\* The client has the answer of authenticate; it may submit again.
LoginFinish ==
    /\ login.pc = "Done"
    /\ login' = IdleLogin
    /\ UNCHANGED <<session, mutationVars, pageVars>>

\* signOut(): the session ends.
SignOut ==
    /\ session # Null
    /\ session' = Null
    /\ UNCHANGED <<login, mutationVars, pageVars>>

\* Emails and passwords submitted to the login form.
EmailInputs ==
    {Null, Str(UserEmail), Str(OtherEmail), Str(<<"w", "@", "x", ".", "i", "o">>),
     Str(<<"u", "+", "1", "@", "x", ".", "i", "o">>), Str(<<"u", "@", "x">>), Str(<<"u", ".", "@", "x", ".", "i", "o">>), Str(<< >>)}

PasswordInputs ==
    {Null, Str(UserPassword), Str(OtherPassword), Str(<<"6", "5", "4", "3", "2", "1">>),
     Str(<<"1", "2", "3", "4", "5">>), Str(<<"1", "2", "3", "4", "5", "6", "7">>),
     Str(<<"s", "e", "c", "r", "e", "t">>), Str(<< >>)}

CredentialInputs == [email : EmailInputs, password : PasswordInputs]

\* Types of the errors of the authentication library.
AuthErrorTypes ==
    {"CredentialsSignin", "CallbackRouteError", "AccessDenied", "MissingSecret",
     "AuthError"}

\* What signIn may throw: nothing, an error of the library, the redirect, or
\* another error, one of them carrying a type field of its own.
SignInOutcomes ==
    {NoError} \cup {AuthError(type) : type \in AuthErrorTypes}
    \cup {OtherError("NEXT_REDIRECT", "undefined"), OtherError("Error", "undefined"),
          OtherError("TypeError", "undefined"), OtherError("Error", "CredentialsSignin"),
          OtherError("Error", "AccessDenied")}

----------------------------------------------------------------------------
(* The middleware of /middleware.ts, authorized of /auth.config.ts and the
   pages *)

StartsWith(s, prefix) ==
    Len(s) >= Len(prefix) /\ SubSeq(s, 1, Len(prefix)) = prefix

EndsWith(s, suffix) ==
    Len(s) >= Len(suffix) /\ SubSeq(s, Len(s) - Len(suffix) + 1, Len(s)) = suffix

\* Segments of the paths of the application.
DashboardSegment == <<"d", "a", "s", "h", "b", "o", "a", "r", "d">>
InvoicesSegment == <<"i", "n", "v", "o", "i", "c", "e", "s">>
EditSegment == <<"e", "d", "i", "t">>
LoginSegment == <<"l", "o", "g", "i", "n">>

\* The path made of the segments, each after a slash.
RECURSIVE PathOf(_)
PathOf(segments) ==
    IF segments = << >> THEN << >>
    ELSE <<"/">> \o Head(segments) \o PathOf(Tail(segments))

\* matcher: every path but those that, after the first slash, start with
\* api, _next/static or _next/image, or end with .png.
Matcher(path) ==
    /\ StartsWith(path, <<"/">>)
    /\ LET rest == Tail(path)
       IN  /\ ~StartsWith(rest, <<"a", "p", "i">>)
           /\ ~StartsWith(rest, <<"_", "n", "e", "x", "t", "/", "s", "t", "a", "t", "i", "c">>)
           /\ ~StartsWith(rest, <<"_", "n", "e", "x", "t", "/", "i", "m", "a", "g", "e">>)
           /\ ~EndsWith(rest, <<".", "p", "n", "g">>)

\* The auth argument of authorized: the session of the request, if any.
AuthOf(s) == IF s = Null THEN Null ELSE [user |-> s]

\* !!auth?.user
IsLoggedIn(auth) == auth # Null /\ auth.user # Null

\* Variant of Authorized: the dashboard branch returns true.
AuthorizedDashboardOpen(auth, pathname) ==
    LET isLoggedIn    == IsLoggedIn(auth)
        isOnDashboard == StartsWith(pathname, PathOf(<<DashboardSegment>>))
    IN  IF isOnDashboard THEN "true"
        ELSE IF isLoggedIn THEN "redirect"
        ELSE "true"

\* Variant of Authorized: a logged-in user is redirected to /dashboard
\* whatever the path.
AuthorizedRedirectingEveryUser(auth, pathname) ==
    LET isLoggedIn    == IsLoggedIn(auth)
        isOnDashboard == StartsWith(pathname, PathOf(<<DashboardSegment>>))
    IN  IF isLoggedIn THEN "redirect"
        ELSE IF isOnDashboard THEN "false"
        ELSE "true"

\* The authorized callback: "true", "false", or "redirect" for the
\* Response that redirects to /dashboard.
Authorized(auth, pathname) ==
    LET isLoggedIn    == IsLoggedIn(auth)
        isOnDashboard == StartsWith(pathname, PathOf(<<DashboardSegment>>))
    IN  IF isOnDashboard
        THEN IF isLoggedIn THEN "true" ELSE "false"
        ELSE IF isLoggedIn THEN "redirect"
        ELSE "true"

\* The page the path is routed to; for the edit page, with params.id.
Route(path) ==
    LET segments == Split(path, "/")
    IN  CASE path = <<"/">> -> [page |-> "home", id |-> << >>]
          [] segments = <<<< >>, LoginSegment>> -> [page |-> "login", id |-> << >>]
          [] segments = <<<< >>, DashboardSegment>> -> [page |-> "dashboard", id |-> << >>]
          [] segments = <<<< >>, DashboardSegment, InvoicesSegment>> ->
                [page |-> "invoices", id |-> << >>]
          [] /\ Len(segments) = 5
             /\ SubSeq(segments, 1, 3) = <<<< >>, DashboardSegment, InvoicesSegment>>
             /\ segments[4] # << >>
             /\ segments[5] = EditSegment ->
                [page |-> "edit", id |-> segments[4]]
          [] OTHER -> [page |-> "none", id |-> << >>]

DashboardPages == {"dashboard", "invoices", "edit"}

\* The identifier of a row as the path carries it.
IdString(n) == <<CHOOSE c \in Digits : DigitValue[c] = n>>

\* fetchInvoiceById(id) when its query succeeds: the row, or nothing.
FetchInvoiceById(table, id) ==
    LET found == {row \in table : IdString(row.id) = id}
    IN  IF found = {} THEN Null ELSE CHOOSE row \in found : TRUE

\* Variant of EditPage: the page without its call of notFound(); reading
\* the fields of the invoice it does not have throws a TypeError.
EditPageWithoutNotFound(invoice) ==
    IF invoice = Null THEN "TypeError" ELSE "none"

\* What the edit page throws once Promise.all has resolved: notFound()
\* throws when there is no invoice.
EditPage(invoice) ==
    IF invoice = Null THEN "NEXT_NOT_FOUND" ELSE "none"

\* What the client is shown for what the page threw: not-found.tsx takes
\* precedence over error.tsx, the boundary of every other error.
Boundary(thrown) ==
    CASE thrown = "none"           -> "edit-form"
      [] thrown = "NEXT_NOT_FOUND" -> "not-found"
      [] OTHER                     -> "error"

\* A request of the client for a path: the middleware, when its matcher
\* selects the path, asks authorized; a request let through is routed to
\* its page, and the edit page starts its two reads.
Respond(path) ==
    LET auth    == AuthOf(session)
        verdict == IF Matcher(path) THEN Authorized(auth, path) ELSE "unmatched"
        route   == Route(path)
        request == [IdlePage EXCEPT !.path = path, !.auth = auth,
                                    !.verdict = verdict]
    IN  CASE verdict = "false" ->
               [request EXCEPT !.pc = "Done", !.view = "redirect to /login"]
          [] verdict = "redirect" ->
               [request EXCEPT !.pc = "Done", !.view = "redirect to /dashboard"]
          [] route.page = "none" ->
               [request EXCEPT !.pc = "Done", !.view = "404"]
          [] route.page = "edit" ->
               [request EXCEPT !.pc = "Fetching", !.route = "edit", !.id = route.id]
          [] OTHER ->
               [request EXCEPT !.pc = "Done", !.route = route.page, !.view = "page"]

\* The client requests a path.
Request(path) ==
    /\ page.pc = "Idle"
    /\ page' = Respond(path)
    /\ UNCHANGED <<loginVars, mutationVars, form, visit>>

\* The path a redirecting response names: pages.signIn for a request that
\* authorized denied, /dashboard for the Response authorized returned.
Location(view) ==
    IF view = "redirect to /login" THEN PathOf(<<LoginSegment>>)
    ELSE PathOf(<<DashboardSegment>>)

\* The client follows the redirect it was answered with: it requests the
\* path named, with the session it has by then.
FollowRedirect ==
    /\ page.pc = "Done"
    /\ page.view \in {"redirect to /login", "redirect to /dashboard"}
    /\ page.hops < MaxHops
    /\ page' = [Respond(Location(page.view)) EXCEPT !.hops = page.hops + 1,
                                                   !.redirected = page.auth]
    /\ UNCHANGED <<loginVars, mutationVars, form, visit>>

\* Promise.all([fetchInvoiceById(id), fetchCustomers()]) settles: it
\* rejects when a read fails, and the error reaches the boundary; else the
\* page goes on with the invoice, if there is one.
PromiseAllSettles ==
    /\ page.pc = "Fetching"
    /\ \E invoiceFails, customersFail \in BOOLEAN :
         LET rejected == invoiceFails \/ customersFail
             invoice  == IF rejected THEN Null ELSE FetchInvoiceById(invoices, page.id)
             thrown   == IF rejected THEN "Error" ELSE EditPage(invoice)
         IN  page' = [page EXCEPT !.pc = "Done", !.invoice = invoice,
                                  !.rejected = rejected, !.view = Boundary(thrown)]
    /\ UNCHANGED <<loginVars, mutationVars, form, visit>>

\* The client has its answer; it may request again.
PageFinish ==
    /\ page.pc = "Done"
    /\ page' = IdlePage
    /\ UNCHANGED <<loginVars, mutationVars, form, visit>>

\* Paths requested: every page, the edit page of every identifier, and
\* paths that are no page, one of them outside the matcher.
PagePaths ==
    {<<"/">>, PathOf(<<LoginSegment>>), PathOf(<<DashboardSegment>>),
     PathOf(<<DashboardSegment, InvoicesSegment>>),
     PathOf(<<DashboardSegment \o <<"s">>>>),
     PathOf(<<DashboardSegment, <<"a", ".", "p", "n", "g">>>>),
     PathOf(<<<<"a", "p", "i">>, DashboardSegment>>)}
    \cup {PathOf(<<DashboardSegment, InvoicesSegment, IdString(id), EditSegment>>) :
            id \in Ids}

\* Credentials submitted by the client that requests pages.
PageCredentials ==
    {[email |-> Str(UserEmail), password |-> Str(UserPassword)],
     [email |-> Str(UserEmail), password |-> Str(OtherPassword)]}

----------------------------------------------------------------------------
(* The invoice form of /app/ui/invoices/create-form.tsx *)

\* The form renders with a state.
FormRenders(state) ==
    /\ form' = FormWith(state)
    /\ UNCHANGED <<loginVars, mutationVars, page, visit>>

\* The run of slot r has returned its result to useActionState: the result
\* is the state of the form, which renders again.
FormReceives(r) ==
    /\ runs[r].kind \in {"create", "update"}
    /\ runs[r].pc \in {"Invalid", "PersistFailed"}
    /\ form' = FormWith(runs[r].result)
    /\ runs' = [runs EXCEPT ![r] = IdleRun]
    /\ UNCHANGED <<invoices, nextId, cache, loginVars, page, visit>>

\* The run of slot r has redirected: the form is left, and opened again it
\* has its initial state.
FormLeft(r) ==
    /\ runs[r].kind \in {"create", "update"}
    /\ runs[r].pc = "Redirected"
    /\ form' = FormWith(InitialState)
    /\ runs' = [runs EXCEPT ![r] = IdleRun]
    /\ UNCHANGED <<invoices, nextId, cache, loginVars, page, visit>>

\* Messages of the errors mappings rendered.
MessageInputs == {"Please select a customer.", "Please enter an amount greater than $0."}

\* Lists of at most MaxMessages messages.
MessageLists == UNION {[1..n -> MessageInputs] : n \in 0..MaxMessages}

\* The errors of the states rendered: undefined, or a mapping of some of
\* the fields to lists of messages.
ErrorsInputs ==
    {Undefined} \cup UNION {[fields -> MessageLists] : fields \in SUBSET FieldNames}

\* The states rendered.
StateInputs ==
    {Returned(errors # Undefined, IF errors = Undefined THEN << >> ELSE errors,
              "Missing Fields. Failed to Create Invoice.") : errors \in ErrorsInputs}

----------------------------------------------------------------------------
(* Specifications *)

\* The concurrent mutation workflow.
Next ==
    \/ IdsLeft /\ \E r \in Runs : \E formData \in Forms : CreateInvoice(r, formData)
    \/ \E r \in Runs : \E id \in Ids, formData \in Forms : UpdateInvoice(r, id, formData)
    \/ \E r \in Runs, id \in Ids : DeleteInvoice(r, id)
    \/ \E r \in Runs : SqlExec(r)
    \/ \E r \in Runs : CreateInvoiceResume(r)
    \/ \E r \in Runs : UpdateInvoiceResume(r)
    \/ \E r \in Runs : DeleteInvoiceResume(r)
    \/ \E r \in Runs : Finish(r)

Spec == Init /\ [][Next]_vars

\* The mutation workflow of one client in slot 1 together with its
\* navigations to /dashboard/invoices, those that follow its redirects and
\* its others, while one request of another client races it in slot 2.
NextRender ==
    \/ IdsLeft /\ \E formData \in RenderForms : CreateInvoice(1, formData)
    \/ IdsLeft /\ \E formData \in RenderForms : CreateInvoice(2, formData)
    \/ \E id \in Ids, formData \in RenderForms : UpdateInvoice(1, id, formData)
    \/ \E id \in Ids : DeleteInvoice(2, id)
    \/ \E r \in {1, 2} : SqlExec(r)
    \/ \E r \in {1, 2} : CreateInvoiceResume(r)
    \/ UpdateInvoiceResume(1)
    \/ DeleteInvoiceResume(2)
    \/ ServeRedirect(1)
    \/ ServeRedirectQuery(1)
    \/ ServeRedirectResume(1)
    \/ Finish(1)
    \/ VisitInvoicesPage
    \/ InvoicesPageQuery
    \/ InvoicesPageResume

SpecRender == Init /\ [][NextRender]_vars

\* One run of createInvoice or updateInvoice on any form.
NextForm ==
    \/ Idle(1) /\ \E formData \in AllForms : CreateInvoice(1, formData)
    \/ Idle(1) /\ \E id \in Ids, formData \in AllForms : UpdateInvoice(1, id, formData)
    \/ SqlExec(1)
    \/ CreateInvoiceResume(1)
    \/ UpdateInvoiceResume(1)

SpecForm == Init /\ [][NextForm]_vars

\* The login of one client.
NextLogin ==
    \/ login.pc = "Idle" /\ \E credentials \in CredentialInputs : Authenticate(credentials)
    \/ GetUserSettles
    \/ CompareSettles
    \/ LoginFinish
    \/ SignOut

SpecLogin == Init /\ [][NextLogin]_vars

\* authenticate over every outcome of signIn.
NextAuthenticate ==
    \/ login.pc = "Idle" /\ \E credentials \in CredentialInputs, thrown \in SignInOutcomes :
          AuthenticateCatching(credentials, thrown)
    \/ LoginFinish

SpecAuthenticate == Init /\ [][NextAuthenticate]_vars

\* Requests that race one another, one run in each slot.
NextConcurrent ==
    \/ IdsLeft /\ \E r \in Slots : Idle(r) /\ \E formData \in ConcurrentForms :
          CreateInvoice(r, formData)
    \/ \E r \in Slots : Idle(r) /\ \E id \in Ids, formData \in ConcurrentForms :
          UpdateInvoice(r, id, formData)
    \/ \E r \in Slots, id \in Ids : DeleteInvoice(r, id)
    \/ \E r \in Slots : SqlExec(r)
    \/ \E r \in Slots : CreateInvoiceResume(r)
    \/ \E r \in Slots : UpdateInvoiceResume(r)
    \/ \E r \in Slots : DeleteInvoiceResume(r)

SpecConcurrent == Init /\ [][NextConcurrent]_vars

\* A form holding one of the states, to be rendered.
InitErrors ==
    /\ invoices = {SeedInvoice}
    /\ nextId = SeedId + 1
    /\ cache = StaleCache
    /\ runs = [r \in Slots |-> IdleRun]
    /\ session = Null
    /\ login = IdleLogin
    /\ page = IdlePage
    /\ visit = IdleVisit
    /\ \E state \in StateInputs : form = [state |-> state, rendered |-> NotRendered]

\* The form renders with the state it holds.
NextErrors == form.rendered = NotRendered /\ FormRenders(form.state)

SpecErrors == InitErrors /\ [][NextErrors]_vars

\* The form of one client through its submissions.
NextFormState ==
    \/ IdsLeft /\ Idle(1) /\ \E formData \in Forms \cup ConcurrentForms :
          CreateInvoice(1, formData)
    \/ Idle(1) /\ \E id \in Ids, formData \in Forms \cup ConcurrentForms :
          UpdateInvoice(1, id, formData)
    \/ SqlExec(1)
    \/ CreateInvoiceResume(1)
    \/ UpdateInvoiceResume(1)
    \/ FormReceives(1)
    \/ FormLeft(1)

SpecFormState == Init /\ [][NextFormState]_vars

\* The pages a client requests between its logins and sign-outs.
NextPages ==
    \/ login.pc = "Idle" /\ \E credentials \in PageCredentials : Authenticate(credentials)
    \/ GetUserSettles
    \/ CompareSettles
    \/ LoginFinish
    \/ SignOut
    \/ page.pc = "Idle" /\ \E path \in PagePaths : Request(path)
    \/ PromiseAllSettles
    \/ FollowRedirect
    \/ PageFinish

SpecPages == Init /\ [][NextPages]_vars

----------------------------------------------------------------------------
(* Properties of the mutation workflow *)

HookEvents == {"revalidatePath", "redirect"}

Positions(events, names) == {i \in 1..Len(events) : events[i] \in names}

\* C1: in every run of createInvoice, updateInvoice and deleteInvoice,
\* revalidatePath and redirect are called only after the run's SQL statement
\* has succeeded; a run that ends with a validation failure or a database
\* failure has called neither.
C1_HooksOnlyAfterSqlSuccess ==
    \A r \in Runs :
        LET e == runs[r].events
        IN  /\ Positions(e, HookEvents) # {} =>
                 /\ runs[r].sqlOk
                 /\ \A h \in Positions(e, HookEvents) :
                       \E q \in Positions(e, {"sql"}) : q < h
            /\ runs[r].pc \in {"Invalid", "PersistFailed"} => Positions(e, HookEvents) = {}
            /\ runs[r].result.outcome = "returned" /\ runs[r].result.hasErrors =>
                 Positions(e, HookEvents) = {}

\* A run has revalidated and redirected after its statement succeeded.
C1_Witness ==
    \E r \in Runs :
        /\ runs[r].pc = "Redirected"
        /\ runs[r].sqlOk
        /\ runs[r].events = <<"sql", "revalidatePath", "redirect">>

\* The amount of the form is missing, is no number, or is a number <= 0.
AmountNotPositive(formData) ==
    LET n == ToNumber(formData.amount)
    IN  n.kind \in {"nan", "zero"} \/ n.neg

FormKinds == {"create", "update"}

\* The run returned field errors and issued no SQL statement.
RejectedWithout(r, field) ==
    /\ runs[r].pc = "Invalid"
    /\ runs[r].result.outcome = "returned"
    /\ runs[r].result.hasErrors
    /\ field \in DOMAIN runs[r].result.errors
    /\ runs[r].result.errors[field] # << >>
    /\ runs[r].stmt = NoStmt
    /\ runs[r].events = << >>

\* C2: for every amount string submitted to createInvoice or updateInvoice
\* that parses to a value <= 0 or does not parse as a number, the action
\* returns errors with a non-empty list under the amount key and executes
\* no SQL statement.
C2_NonPositiveAmountRejected ==
    \A r \in Runs :
        runs[r].kind \in FormKinds /\ AmountNotPositive(runs[r].formData) =>
            RejectedWithout(r, "amount")

\* Runs on the amounts "-1", "" and "a." have been rejected on the amount.
C2_Witness ==
    /\ runs[1].kind \in FormKinds
    /\ runs[1].formData.amount \in {Str(<<"-", "1">>), Str(<< >>), Str(<<"1", "-">>)}
    /\ runs[1].formData.customerId = Str("c1")
    /\ runs[1].formData.status = Str("paid")
    /\ RejectedWithout(1, "amount")
    /\ DOMAIN runs[1].result.errors = {"amount"}

\* The DELETE of an ended deleteInvoice run matched no row.
DeletedNothing(r) ==
    /\ runs[r].kind = "delete"
    /\ runs[r].pc \in TerminalPcs
    /\ runs[r].changed = {}

\* C3 as stated: a deleteInvoice call whose identifier matches no row
\* reports a persistence failure and performs neither cache invalidation
\* nor a redirect.
C3_MissingRowReportedAsFailure ==
    \A r \in Runs :
        DeletedNothing(r) =>
            /\ runs[r].result = Returned(FALSE, << >>,
                                         "Database Error: Failed to Delete Invoice.")
            /\ Positions(runs[r].events, HookEvents) = {}

\* C3 as amended: a deleteInvoice call whose identifier matches no row does
\* not crash and does not redirect; when the database executes the DELETE
\* it succeeds on zero rows, and the run returns "Deleted Invoice." after
\* invalidating the cache; a persistence failure is reported only when the
\* database fails the statement.
C3_MissingRowDeletedAsSuccess ==
    \A r \in Runs :
        DeletedNothing(r) =>
            /\ runs[r].result.outcome = "returned"
            /\ "redirect" \notin {runs[r].events[i] : i \in 1..Len(runs[r].events)}
            /\ runs[r].sqlOk =>
                 /\ runs[r].result = Returned(FALSE, << >>, "Deleted Invoice.")
                 /\ runs[r].events = <<"sql", "revalidatePath">>
            /\ ~runs[r].sqlOk =>
                 /\ runs[r].result = Returned(FALSE, << >>,
                                              "Database Error: Failed to Delete Invoice.")
                 /\ runs[r].events = <<"sql">>

\* A deleteInvoice run whose DELETE succeeded on no row has ended.
C3_Witness ==
    \E r \in Runs :
        /\ DeletedNothing(r)
        /\ runs[r].sqlOk
        /\ runs[r].stmt.id \notin {row.id : row \in invoices}
        /\ runs[r].result.message = "Deleted Invoice."

\* The status of the form is missing or is not exactly pending or paid.
StatusNotRecognised(formData) ==
    formData.status = Null \/ formData.status.v \notin {"pending", "paid"}

\* C5: for every status submitted to createInvoice or updateInvoice that is
\* not exactly "pending" or "paid", a missing status included, the action
\* returns an errors result and executes no SQL statement.
C5_UnknownStatusRejected ==
    \A r \in Runs :
        runs[r].kind \in FormKinds /\ StatusNotRecognised(runs[r].formData) =>
            RejectedWithout(r, "status")

\* A run whose only fault is the status "Paid" has been rejected.
C5_Witness ==
    /\ runs[1].kind \in FormKinds
    /\ runs[1].formData =
         [customerId |-> Str("c1"), amount |-> Str(<<"1", "5">>), status |-> Str("Paid")]
    /\ RejectedWithout(1, "status")
    /\ DOMAIN runs[1].result.errors = {"status"}

\* C6 as stated: a missing customerId and an empty-string customerId are
\* both rejected with an error under the customerId key, and neither
\* reaches the SQL statement.
C6_EmptyCustomerIdRejected ==
    \A r \in Runs :
        /\ runs[r].kind \in FormKinds
        /\ runs[r].formData.customerId \in {Null, Str("")}
        => RejectedWithout(r, "customerId")

\* The amount bound into a statement is a positive integer.
PositiveInteger(d) == d.kind = "fin" /\ ~d.neg /\ IsInteger(d)

\* C7 as stated: every amount bound into an INSERT or UPDATE statement by
\* createInvoice or updateInvoice is a positive integer number of cents.
C7_BoundAmountIsIntegerCents ==
    \A r \in Runs :
        runs[r].stmt.op \in {"insert", "update"} => PositiveInteger(runs[r].stmt.amount)

\* The identifiers of the rows.
IdsOf(rows) == {row.id : row \in rows}

\* The deleteInvoice runs have removed the invoice with the identifier.
RemovedByDelete(id) ==
    /\ id \notin IdsOf(invoices)
    /\ \E q \in Slots : runs[q].kind = "delete" /\ id \in IdsOf(runs[q].changed)

\* C8 as stated: the list a createInvoice run that succeeded has its
\* redirected client served holds the new invoice.
C8_NextReadIncludesNewInvoice ==
    \A r \in Slots :
        /\ runs[r].kind = "create"
        /\ runs[r].pc = "Redirected"
        /\ runs[r].served
        => IdsOf(runs[r].changed) \subseteq IdsOf(runs[r].view)

\* C8 as amended: when a createInvoice run that succeeded redirects, the
\* cached rendering of the list has been discarded first and nothing is
\* served yet; the rows awaited for the redirected client, and the list then
\* delivered to it, hold the new invoice unless a deleteInvoice run has
\* removed it from the table: they are not of a rendering made before the
\* insert.
C8_RedirectServesFreshList ==
    /\ [](\A r \in Slots :
            /\ runs[r].kind = "create"
            /\ runs[r].pc = "Redirected"
            => /\ runs[r].changed # {}
               /\ runs[r].nav = "Awaiting" =>
                     \A id \in IdsOf(runs[r].changed) :
                         id \in IdsOf(runs[r].rows) \/ RemovedByDelete(id)
               /\ runs[r].served =>
                     \A id \in IdsOf(runs[r].changed) :
                         id \in IdsOf(runs[r].view) \/ RemovedByDelete(id))
    /\ [][\A r \in Slots :
            /\ runs[r].kind = "create"
            /\ runs[r].pc = "SqlDone"
            /\ runs'[r].pc = "Redirected"
            => /\ ~cache'.valid
               /\ runs'[r].nav = "none"
               /\ ~runs'[r].served]_vars

\* A createInvoice run has been redirected and served a list that holds
\* its new row; the list was made from rows queried before a deleteInvoice
\* run removed the seeded invoice, and was delivered and kept by the client
\* after that run had called revalidatePath.
C8_Witness ==
    \E r \in Runs :
        /\ runs[r].pc = "Redirected"
        /\ runs[r].kind = "create"
        /\ runs[r].served
        /\ runs[r].changed # {}
        /\ runs[r].changed \subseteq runs[r].view
        /\ SeedInvoice \in runs[r].view
        /\ SeedInvoice \notin invoices
        /\ cache.valid
        /\ cache.list = runs[r].view
        /\ visit.pc = "Idle"
        /\ \E q \in Slots : runs[q].kind = "delete" /\ Revalidated(q)

\* C9 as stated: every mutation run whose SQL statement succeeded performs
\* cache invalidation and then the redirect, and every run ends in one of
\* the states Invalid, PersistFailed, Redirected.
C9_SuccessEndsRedirected ==
    \A r \in Runs :
        runs[r].pc \in TerminalPcs =>
            /\ runs[r].pc \in {"Invalid", "PersistFailed", "Redirected"}
            /\ runs[r].sqlOk => runs[r].events = <<"sql", "revalidatePath", "redirect">>

GenericMessage ==
    [create |-> "Database Error: Failed to Create Invoice.",
     update |-> "Database Error: Failed to Update Invoice.",
     delete |-> "Database Error: Failed to Delete Invoice."]

\* C10: when the SQL statement of createInvoice, updateInvoice or
\* deleteInvoice fails at the database, the action returns (it does not
\* throw) a result that carries only the fixed generic message of its kind,
\* with nothing of the database's error text, and no step of that run
\* changes the invoices table.
C10_DatabaseFailureIsGeneric ==
    /\ [](\A r \in Runs :
            runs[r].sqlError # "" =>
                /\ ~runs[r].sqlOk
                /\ runs[r].changed = {}
                /\ runs[r].pc \in {"SqlDone", "PersistFailed"}
                /\ runs[r].pc = "PersistFailed" =>
                     /\ runs[r].result = Returned(FALSE, << >>, GenericMessage[runs[r].kind])
                     /\ runs[r].result.message # runs[r].sqlError)
    /\ [][\A r \in Runs :
            runs'[r] # runs[r] /\ runs'[r].sqlError # "" => invoices' = invoices]_vars

\* An updateInvoice run has ended with the generic message after the
\* database failed its statement on a constraint, the table as it was.
C10_Witness ==
    \E r \in Runs :
        /\ runs[r].pc = "PersistFailed"
        /\ runs[r].kind = "update"
        /\ runs[r].stmt.id = SeedId
        /\ runs[r].sqlError = ErrorText(FALSE)
        /\ runs[r].result.message = "Database Error: Failed to Update Invoice."
        /\ invoices = {SeedInvoice}

\* The digits of the amount string and the number of them after the point.
AmountDigits(s) == SelectSeq(s, LAMBDA c : c \in Digits)
DecimalPlaces(s) ==
    IF \A i \in 1..Len(s) : s[i] # "." THEN 0
    ELSE Len(s) - (CHOOSE i \in 1..Len(s) : s[i] = ".")

\* The string writes a positive amount of dollars in decimal notation with
\* at most two decimal places.
DecimalDollars(s) ==
    /\ \A i \in 1..Len(s) : s[i] \in Digits \cup {"."}
    /\ Cardinality({i \in 1..Len(s) : s[i] = "."}) <= 1
    /\ DecimalPlaces(s) <= 2
    /\ DigitsValue(AmountDigits(s)) > 0

\* That amount times 100: a whole number of cents.
CentsOf(s) == DigitsValue(AmountDigits(s)) * Pow10(2 - DecimalPlaces(s))

TenFifty == <<"1", "0", ".", "5", "0">>

\* C14 as stated: for {customerId: "abc", amount: "10.50", status:
\* "pending"} the amount bound into the SQL statement is 1050; every amount
\* string of decimal dollars with at most two decimal places is bound as
\* that amount times 100; for the amount "0" the amount key of the errors
\* returned maps to exactly ["Please enter an amount greater than $0."].
C14_AmountTimesHundred ==
    \A r \in Runs :
        runs[r].kind \in FormKinds =>
            LET formData == runs[r].formData
            IN  /\ formData = [customerId |-> Str("abc"), amount |-> Str(TenFifty),
                               status |-> Str("pending")] =>
                     /\ runs[r].stmt.op \in {"insert", "update"}
                     /\ runs[r].stmt.amount = DecimalToDouble(1050, 0)
                /\ /\ formData.amount.t = "str"
                   /\ DecimalDollars(formData.amount.v)
                   /\ runs[r].stmt.op \in {"insert", "update"}
                   => runs[r].stmt.amount = DecimalToDouble(CentsOf(formData.amount.v), 0)
                /\ formData.amount = Str(<<"0">>) =>
                     /\ runs[r].pc = "Invalid"
                     /\ runs[r].result.errors["amount"] =
                          <<"Please enter an amount greater than $0.">>

\* What validation made of the form of a run: the field errors it
\* returned, or the typed record as the statement carries it.
ValidationOf(run) ==
    IF run.pc = "Invalid"
    THEN [success |-> FALSE, errors |-> run.result.errors, data |-> << >>]
    ELSE [success |-> TRUE, errors |-> << >>,
          data |-> <<run.stmt.customer_id, run.stmt.amount, run.stmt.status>>]

\* 1055.5, the product 10.555 * 100.
TenFiftyFiveAndAHalf ==
    [neg |-> FALSE, kind |-> "fin", e |-> 10,
     m |-> <<1, 0, 0, 0, 0, 0, 1, 1, 1, 1, 1, 1>> \o Zeros(41)]

\* The validation result of each form submitted in the concurrent
\* workflow, as zod gives it.
ExpectedValidation(formData) ==
    CASE formData = [customerId |-> Str("c2"), amount |-> Str(TenFifty),
                     status |-> Str("paid")] ->
            [success |-> TRUE, errors |-> << >>,
             data |-> <<"c2", DecimalToDouble(1050, 0), "paid">>]
      [] formData = [customerId |-> Null, amount |-> Str(<<"0">>), status |-> Null] ->
            [success |-> FALSE,
             errors |-> [customerId |-> <<"Please select a customer.">>,
                         amount |-> <<"Please enter an amount greater than $0.">>,
                         status |-> <<"Please select an invoice status.">>],
             data |-> << >>]
      [] formData = [customerId |-> Str(""),
                     amount |-> Str(<<"1", "0", ".", "5", "5", "5">>),
                     status |-> Str("pending")] ->
            [success |-> TRUE, errors |-> << >>,
             data |-> <<"", TenFiftyFiveAndAHalf, "pending">>]
      [] formData = [customerId |-> Str("c1"), amount |-> Str(<<"a">>),
                     status |-> Str("Paid")] ->
            [success |-> FALSE,
             errors |-> [amount |-> <<"Expected number, received nan">>,
                         status |-> <<"Invalid enum value. Expected 'pending' | 'paid', received 'Paid'">>],
             data |-> << >>]

\* The step starts a run of createInvoice or updateInvoice in slot r: it
\* validates the form.
Validates(r) ==
    /\ Idle(r)
    /\ runs'[r].kind \in FormKinds
    /\ runs'[r].pc \in {"Invalid", "Persisting"}

\* C15: validation in createInvoice and updateInvoice is deterministic and
\* without side effects: whatever the table, the cache and the runs before
\* or beside it, a run has for its form the one validation result zod gives
\* that form, so two runs with identical customerId, amount and status
\* have the same (the same typed record or the same field errors); and the
\* step that validates changes neither the table, nor the cache, nor
\* another run.
C15_ValidationDeterministic ==
    /\ [](\A r1, r2 \in Slots :
            runs[r1].kind \in FormKinds =>
                /\ ValidationOf(runs[r1]) = ExpectedValidation(runs[r1].formData)
                /\ runs[r2].kind \in FormKinds /\ runs[r1].formData = runs[r2].formData
                     => ValidationOf(runs[r1]) = ValidationOf(runs[r2]))
    /\ [][\A r \in Slots :
            Validates(r) =>
                /\ runs'[r].events = << >>
                /\ UNCHANGED <<invoices, nextId, cache, loginVars, pageVars>>
                /\ \A q \in Slots \ {r} : runs'[q] = runs[q]]_vars

\* A run has validated a form that the run of another slot validated
\* before it, while the table holds the invoice that run inserted for the
\* form and the cache holds a rendering.
C15_Witness ==
    \E r \in Slots :
        /\ runs[r].pc = "Persisting"
        /\ runs[r].kind = "create"
        /\ runs[r].formData.amount = Str(TenFifty)
        /\ \E q \in Slots \ {r} :
              /\ runs[q].kind = "create"
              /\ runs[q].pc = "Redirected"
              /\ runs[q].formData = runs[r].formData
              /\ runs[q].changed \subseteq invoices
        /\ \E row \in invoices :
              /\ row.id # SeedId
              /\ row.customer_id = runs[r].stmt.customer_id
              /\ row.amount = IntegerPart(runs[r].stmt.amount)
        /\ cache.valid
        /\ cache.list = invoices

\* The number of SQL statements a run has executed.
StatementsOf(run) == Cardinality(Positions(run.events, {"sql"}))

\* The run passed validation and has ended.
EndedPastValidation(r) ==
    runs[r].pc \in TerminalPcs \ {"Invalid"}

\* C16 as stated: each run that passes validation executes exactly one SQL
\* statement, each successful run commits exactly one row change, and a
\* run that fails commits none.
C16_OneStatementOneRowChange ==
    \A r \in Runs :
        EndedPastValidation(r) =>
            /\ StatementsOf(runs[r]) = 1
            /\ runs[r].sqlOk => Cardinality(runs[r].changed) = 1
            /\ ~runs[r].sqlOk => runs[r].changed = {}

\* C16 as amended: each run that passes validation executes exactly one
\* SQL statement and a run that fails validation executes none; the
\* statement of a successful createInvoice inserts exactly one row; the
\* statement of a successful updateInvoice or deleteInvoice changes the one
\* row with its identifier when the table holds it and no row when it does
\* not; a statement that fails changes nothing, and no other step of a run
\* changes the table.
C16_OneStatementAtMostOneRowChange ==
    /\ [](\A r \in Runs :
            /\ runs[r].pc = "Invalid" => StatementsOf(runs[r]) = 0 /\ runs[r].changed = {}
            /\ runs[r].pc \in {"Idle", "Persisting"} => StatementsOf(runs[r]) = 0
            /\ runs[r].pc = "SqlDone" \/ EndedPastValidation(r) =>
                 /\ StatementsOf(runs[r]) = 1
                 /\ Cardinality(runs[r].changed) <= 1
                 /\ ~runs[r].sqlOk => runs[r].changed = {})
    /\ [][\A r \in Runs :
            IF runs[r].pc = "Persisting" /\ runs'[r].pc = "SqlDone"
            THEN LET stmt    == runs[r].stmt
                     matched == {row \in invoices : row.id = stmt.id}
                     changed == runs'[r].changed
                 IN  IF ~runs'[r].sqlOk
                     THEN invoices' = invoices /\ changed = {}
                     ELSE CASE stmt.op = "insert" ->
                                 /\ invoices \subseteq invoices'
                                 /\ Cardinality(invoices' \ invoices) = 1
                                 /\ changed = invoices' \ invoices
                            [] stmt.op = "update" ->
                                 /\ Cardinality(matched) <= 1
                                 /\ Cardinality(changed) = Cardinality(matched)
                                 /\ \A row \in changed : row.id = stmt.id
                                 /\ invoices' = (invoices \ matched) \cup changed
                            [] stmt.op = "delete" ->
                                 /\ Cardinality(matched) <= 1
                                 /\ changed = matched
                                 /\ invoices' = invoices \ matched
            ELSE (\A q \in Runs : ~(runs[q].pc = "Persisting" /\ runs'[q].pc = "SqlDone"))
                    => invoices' = invoices]_vars

\* An updateInvoice run for an identifier without a row has ended
\* redirected: its one statement succeeded and changed no row.
C16_Witness ==
    \E r \in Runs :
        /\ runs[r].pc = "Redirected"
        /\ runs[r].kind = "update"
        /\ runs[r].sqlOk
        /\ StatementsOf(runs[r]) = 1
        /\ runs[r].changed = {}
        /\ runs[r].stmt.id \notin {row.id : row \in invoices}

\* C17: no run retries a failed database call: a run executes its statement
\* at most once, and once the statement has failed the run awaits no
\* statement again; it has executed that one statement only and its next
\* and last position is the return of the error message of its action.
C17_NoRetry ==
    \A r \in Runs :
        /\ StatementsOf(runs[r]) <= 1
        /\ runs[r].sqlError # "" =>
              /\ runs[r].pc \in {"SqlDone", "PersistFailed"}
              /\ runs[r].events = <<"sql">>
        /\ runs[r].pc = "PersistFailed" =>
              /\ runs[r].sqlError # ""
              /\ runs[r].result = Returned(FALSE, << >>, GenericMessage[runs[r].kind])

\* A createInvoice run whose INSERT the database failed has returned the
\* error message after that one statement.
C17_Witness ==
    \E r \in Runs :
        /\ runs[r].pc = "PersistFailed"
        /\ runs[r].kind = "create"
        /\ runs[r].sqlError # ""
        /\ runs[r].events = <<"sql">>
        /\ runs[r].result.message = "Database Error: Failed to Create Invoice."

FormA == [customerId |-> Str("c2"), amount |-> Str(TenFifty), status |-> Str("paid")]
FormB == [customerId |-> Str("c1"), amount |-> Str(<<"1", "5">>), status |-> Str("pending")]
FormC == [customerId |-> Null, amount |-> Str(<<"0">>), status |-> Null]

\* 1050 and 1500 as the statement carries them.
CentsA == DecimalToDouble(1050, 0)
CentsB == DecimalToDouble(1500, 0)

\* The statement a run binds from its own input: its form and, for an
\* update or a delete, its identifier.
OwnStatement(run) ==
    LET bound == IF run.formData = FormA
                 THEN [NoStmt EXCEPT !.customer_id = "c2", !.amount = CentsA,
                                     !.status = "paid"]
                 ELSE [NoStmt EXCEPT !.customer_id = "c1", !.amount = CentsB,
                                     !.status = "pending"]
    IN  CASE run.kind = "create" -> [bound EXCEPT !.op = "insert", !.date = Today]
          [] run.kind = "update" -> [bound EXCEPT !.op = "update", !.id = run.stmt.id]
          [] run.kind = "delete" -> [NoStmt EXCEPT !.op = "delete", !.id = run.stmt.id]

\* The result of an ended run, from its own input and the outcome of its
\* own statement.
OwnResult(run) ==
    IF run.kind \in FormKinds /\ run.formData = FormC
    THEN Returned(TRUE,
                  [customerId |-> <<"Please select a customer.">>,
                   amount |-> <<"Please enter an amount greater than $0.">>,
                   status |-> <<"Please select an invoice status.">>],
                  IF run.kind = "create" THEN "Missing Fields. Failed to Create Invoice."
                  ELSE "Missing Fields. Failed to Update Invoice.")
    ELSE IF ~run.sqlOk THEN Returned(FALSE, << >>, GenericMessage[run.kind])
    ELSE IF run.kind = "delete" THEN Returned(FALSE, << >>, "Deleted Invoice.")
    ELSE RedirectThrown

\* The step is the database answering the statement of the run in slot r.
Commits(r) == runs[r].pc = "Persisting" /\ runs'[r].pc = "SqlDone"

\* C18: requests share no state but the database: in every interleaving of
\* concurrent createInvoice, updateInvoice and deleteInvoice runs, a run
\* binds its statement from its own input, its result is that of its own
\* input and of the outcome of its own statement, and no step of a run
\* writes what belongs to another; the table changes only when the database
\* commits a statement, and then to the table before it with that one
\* statement applied, so that the final table is the committed statements
\* applied one after another in the order of their commits.
C18_RunsShareOnlyTheDatabase ==
    /\ [](\A r \in Slots :
            /\ runs[r].pc \in {"Persisting", "SqlDone"} \cup (TerminalPcs \ {"Invalid"}) =>
                 runs[r].stmt = OwnStatement(runs[r])
            /\ runs[r].kind \in FormKinds /\ runs[r].formData = FormC =>
                 runs[r].pc = "Invalid"
            /\ runs[r].pc \in TerminalPcs => runs[r].result = OwnResult(runs[r]))
    /\ [][/\ \A r, q \in Slots : runs'[r] # runs[r] /\ runs'[q] # runs[q] => r = q
          /\ \A r \in Slots :
                Commits(r) =>
                    /\ invoices' = IF runs'[r].sqlOk
                                    THEN Apply(invoices, runs[r].stmt, nextId)
                                    ELSE invoices
                    /\ runs'[r].changed = IF runs'[r].sqlOk
                                           THEN RowsTouched(invoices, runs[r].stmt, nextId)
                                           ELSE {}
          /\ (\A r \in Slots : ~Commits(r)) => invoices' = invoices /\ nextId' = nextId]_vars

\* Two createInvoice runs with different forms were in flight together and
\* both succeeded: the run of slot 2 committed first and has the first
\* identifier, the run of slot 1 the next, and the table holds the seeded
\* invoice and the two rows, each with the values of its own form.
C18_Witness ==
    /\ runs[1].pc = "Redirected" /\ runs[2].pc = "Redirected"
    /\ runs[1].kind = "create" /\ runs[2].kind = "create"
    /\ runs[1].formData = FormA /\ runs[2].formData = FormB
    /\ runs[2].changed =
         {[id |-> SeedId + 1, customer_id |-> "c1", amount |-> 1500, status |-> "pending",
           date |-> Today]}
    /\ runs[1].changed =
         {[id |-> SeedId + 2, customer_id |-> "c2", amount |-> 1050, status |-> "paid",
           date |-> Today]}
    /\ invoices = {SeedInvoice} \cup runs[1].changed \cup runs[2].changed

\* The rows of a table other than the one with the identifier.
OtherRows(table, id) == {row \in table : row.id # id}

\* The row of a table with the identifier, if there is one.
RowsWith(table, id) == {row \in table : row.id = id}

\* The step is the database committing the statement of the run in slot r.
CommitsOk(r) == Commits(r) /\ runs'[r].sqlOk

\* C21: a successful updateInvoice(id, ...) changes only the customer_id,
\* amount and status of the row whose id is the given one, keeps that row's
\* id and date and leaves every other row as it was; a successful
\* deleteInvoice(id) removes only the row with that id; when no row has the
\* id, updateInvoice changes no row and still invalidates the cache and
\* redirects as a success.
C21_UpdateAndDeleteTouchOneRow ==
    [][\A r \in Slots :
         LET stmt == runs[r].stmt
         IN  /\ CommitsOk(r) /\ runs[r].kind = "update" =>
                   /\ OtherRows(invoices', stmt.id) = OtherRows(invoices, stmt.id)
                   /\ Cardinality(RowsWith(invoices', stmt.id)) =
                         Cardinality(RowsWith(invoices, stmt.id))
                   /\ \A old \in RowsWith(invoices, stmt.id) :
                         \A new \in RowsWith(invoices', stmt.id) :
                             /\ new.id = old.id
                             /\ new.date = old.date
                             /\ new.customer_id = stmt.customer_id
                             /\ new.status = stmt.status
                   /\ RowsWith(invoices, stmt.id) = {} =>
                         invoices' = invoices /\ runs'[r].changed = {}
                   /\ nextId' = nextId
             /\ CommitsOk(r) /\ runs[r].kind = "delete" =>
                   /\ invoices' = OtherRows(invoices, stmt.id)
                   /\ nextId' = nextId
             /\ /\ runs[r].kind = "update"
                /\ runs[r].pc = "SqlDone"
                /\ runs[r].sqlOk
                /\ runs[r].changed = {}
                /\ runs'[r] # runs[r]
                => /\ runs'[r].pc = "Redirected"
                   /\ runs'[r].events = <<"sql", "revalidatePath", "redirect">>
                   /\ ~cache'.valid
                   /\ invoices' = invoices]_vars

\* An updateInvoice of the seeded invoice has succeeded while the table
\* held an inserted invoice too: the seeded row has the new customer,
\* amount and status under its own id and date, and the inserted row is as
\* it was inserted.
C21_Witness ==
    /\ \E r \in Slots :
          /\ runs[r].kind = "update"
          /\ runs[r].pc = "Redirected"
          /\ runs[r].stmt.id = SeedId
    /\ invoices =
         {[id |-> SeedId, customer_id |-> "c2", amount |-> 1050, status |-> "paid",
           date |-> "2024-01-01"],
          [id |-> SeedId + 1, customer_id |-> "c1", amount |-> 1500, status |-> "pending",
           date |-> Today]}

----------------------------------------------------------------------------
(* Properties of the login *)

\* The ended login run submitted the email of an existing user with a
\* password that does not match that user's stored hash.
WrongPasswordForUser ==
    /\ login.pc = "Done"
    /\ login.credentials.email.t = "str"
    /\ \E u \in Users :
          /\ u.email = login.credentials.email.v
          /\ \/ login.credentials.password.t # "str"
             \/ ~Compare(login.credentials.password.v, u.password)

\* A session exists after authenticate only for the user that was found and
\* whose password comparison matched.
SessionOnlyAfterMatch ==
    login.pc = "Done" /\ session # Null =>
        /\ login.lookup = "found"
        /\ login.compared
        /\ login.passwordsMatch
        /\ session = login.credentials.email

\* The emails submitted that are no well-formed address, and the passwords
\* submitted of fewer than six characters.
MalformedEmails ==
    {Null, Str(<<"u", "@", "x">>), Str(<<"u", ".", "@", "x", ".", "i", "o">>), Str(<< >>)}

ShortPasswords == {Null, Str(<<"1", "2", "3", "4", "5">>), Str(<< >>)}

\* The emails of the users table, and the pairs of an email and the
\* password of its user.
StoredEmails == {Str(UserEmail), Str(OtherEmail)}

StoredCredentials ==
    {[email |-> Str(UserEmail), password |-> Str(UserPassword)],
     [email |-> Str(OtherEmail), password |-> Str(OtherPassword)]}

\* What holds of the credential check whether or not the query of the users
\* table completes: malformed credentials are rejected with null before any
\* query or comparison, an email of no user is never compared, and the user
\* is returned only after a comparison that matched.
AuthorizeGuards ==
    /\ login.credentials.email \in MalformedEmails
         \/ login.credentials.password \in ShortPasswords =>
            /\ login.lookup = "none"
            /\ ~login.compared
            /\ login.pc = "Done" => login.authorized = "null"
    /\ login.credentials.email \notin StoredEmails => ~login.compared
    /\ login.lookup = "absent" => login.authorized = "null" /\ ~login.compared
    /\ login.compared => login.lookup = "found"
    /\ login.authorized = "user" <=>
            /\ login.pc = "Done"
            /\ login.lookup = "found"
            /\ login.compared
            /\ login.passwordsMatch
    /\ login.authorized = "user" => login.credentials \in StoredCredentials

\* C22 as stated: authorize returns null in every case other than a found
\* user with a matching password; it rejects malformed credentials without
\* querying the users table or comparing hashes and an email of no user
\* without comparing hashes, and returns the user only after a successful
\* comparison.
C22_AuthorizeReturnsNullOrUser ==
    /\ AuthorizeGuards
    /\ login.pc = "Done" => login.authorized \in {"null", "user"}

\* C22 as amended: the same, except that authorize returns null only when
\* the query of the users table completes; when the query fails, authorize
\* throws, having compared nothing and returning no user.
C22_AuthorizeReturnsNullUnlessQueryFails ==
    /\ AuthorizeGuards
    /\ login.pc = "Done" =>
          /\ login.authorized \in {"null", "user", "threw"}
          /\ login.authorized = "threw" <=> login.lookup = "failed"
          /\ login.lookup = "failed" => ~login.compared /\ session = Null
          /\ login.lookup # "failed" /\ login.credentials \notin StoredCredentials =>
                login.authorized = "null"

\* The email of no user with a password long enough was looked up and
\* rejected with null, no hash compared.
C22_Witness ==
    /\ login.pc = "Done"
    /\ login.credentials.email = Str(<<"w", "@", "x", ".", "i", "o">>)
    /\ login.credentials.password = Str(UserPassword)
    /\ login.lookup = "absent"
    /\ ~login.compared
    /\ login.authorized = "null"

\* C4 as stated: authenticate with the email of an existing user and a
\* password that does not match the stored hash returns "Invalid
\* credentials." and leaves no session; a session exists after authenticate
\* only when the user was found and the comparison matched.
C4_WrongPasswordInvalidCredentials ==
    /\ WrongPasswordForUser =>
          login.result = "Invalid credentials." /\ session = Null
    /\ SessionOnlyAfterMatch

\* C4 as amended: such an attempt never leaves a session, and it returns
\* "Invalid credentials." whenever the query of the users table does not
\* fail; when that query fails it returns "Something went wrong."; a
\* session exists after authenticate only when the user was found and the
\* comparison matched.
C4_WrongPasswordNoSession ==
    /\ WrongPasswordForUser =>
          /\ session = Null
          /\ login.thrown.class = "AuthError"
          /\ login.lookup # "failed" => login.result = "Invalid credentials."
          /\ login.lookup = "failed" => login.result = "Something went wrong."
    /\ SessionOnlyAfterMatch

\* A login with an existing email and another user's password was looked
\* up, compared and answered "Invalid credentials.", without a session.
C4_Witness ==
    /\ WrongPasswordForUser
    /\ login.credentials = [email |-> Str(UserEmail), password |-> Str(OtherPassword)]
    /\ login.lookup = "found"
    /\ login.compared
    /\ ~login.passwordsMatch
    /\ login.result = "Invalid credentials."
    /\ session = Null

\* C11: authenticate answers an error of the authentication library of type
\* CredentialsSignin with "Invalid credentials." and one of any other type
\* with "Something went wrong."; an error that is not of the library is
\* rethrown and converted to no message; neither message is returned for
\* any other kind of error.
C11_AuthenticateMapsErrors ==
    login.pc = "Done" =>
        LET thrown == login.thrown
        IN  /\ thrown = AuthError("CredentialsSignin") =>
                 login.result = "Invalid credentials." /\ login.rethrown = NoError
            /\ thrown.class = "AuthError" /\ thrown.type # "CredentialsSignin" =>
                 login.result = "Something went wrong." /\ login.rethrown = NoError
            /\ thrown.class \notin {"AuthError", "none"} =>
                 login.result = "undefined" /\ login.rethrown = thrown
            /\ login.result = "Invalid credentials." =>
                 thrown = AuthError("CredentialsSignin")
            /\ login.result = "Something went wrong." =>
                 thrown.class = "AuthError" /\ thrown.type # "CredentialsSignin"

\* authenticate has rethrown an error that is not of the library although
\* its type field reads CredentialsSignin.
C11_Witness ==
    /\ login.pc = "Done"
    /\ login.thrown = OtherError("Error", "CredentialsSignin")
    /\ login.rethrown = login.thrown
    /\ login.result = "undefined"

----------------------------------------------------------------------------
(* Properties of the pages *)

\* The request for the edit page of an identifier without a row has ended.
EditOfMissingInvoice ==
    /\ page.pc = "Done"
    /\ page.route = "edit"
    /\ FetchInvoiceById(invoices, page.id) = Null

\* C12 as stated: a request for the edit page of an invoice identifier that
\* has no matching row ends in the not-found view, never in the error
\* boundary or in the edit form.
C12_MissingInvoiceNotFound ==
    EditOfMissingInvoice => page.view = "not-found"

\* C12 as amended: such a request never ends in the edit form; it ends in
\* the not-found view whenever the two reads of the page complete, and in
\* the error boundary when one of them fails.
C12_MissingInvoiceNotFoundUnlessReadFails ==
    EditOfMissingInvoice =>
        /\ page.view # "edit-form"
        /\ ~page.rejected => page.view = "not-found"
        /\ page.rejected => page.view = "error"

\* The edit page of an identifier without a row was requested with a
\* session, its reads completed, and the not-found view was shown.
C12_Witness ==
    /\ EditOfMissingInvoice
    /\ page.verdict = "true"
    /\ ~page.rejected
    /\ page.id \notin {IdString(row.id) : row \in invoices}
    /\ page.view = "not-found"

\* The request is for a path that starts with /dashboard.
OnDashboard == StartsWith(page.path, PathOf(<<DashboardSegment>>))

\* C13: for every request whose path starts with /dashboard, authorized
\* allows the request only when it carries the session of a logged-in user;
\* whatever the requests, logins and sign-outs before it, a dashboard page
\* is fetched for or shown to a request only if the middleware allowed it
\* with such a session, and a request it did not allow is shown no page.
C13_DashboardNeedsSession ==
    /\ page.pc # "Idle" /\ OnDashboard /\ page.verdict = "true" =>
          /\ IsLoggedIn(page.auth)
          /\ \E u \in Users : page.auth.user = Str(u.email)
    /\ page.route \in DashboardPages =>
          /\ OnDashboard
          /\ page.verdict = "true"
          /\ IsLoggedIn(page.auth)
    /\ page.pc # "Idle" /\ OnDashboard /\ page.verdict # "true" =>
          /\ page.pc = "Done"
          /\ page.view \in {"redirect to /login", "404"}
          /\ page.verdict = "unmatched" => page.view = "404"

\* The invoices page has been shown to a request that carried the session
\* of the user signed in.
C13_Witness ==
    /\ page.pc = "Done"
    /\ page.route = "invoices"
    /\ page.view = "page"
    /\ page.verdict = "true"
    /\ page.auth = AuthOf(Str(UserEmail))
    /\ session = Str(UserEmail)

\* The request was handed to authorized.
Decided == page.pc # "Idle" /\ page.verdict # "unmatched"

\* C23: authorized decides every request by whether a user is logged in and
\* whether the path is under /dashboard: not logged in and under /dashboard
\* is sent to the login page, logged in and under /dashboard is allowed,
\* logged in and not under /dashboard is redirected to /dashboard, not
\* logged in and not under /dashboard is allowed; so no request of a
\* logged-in user is answered with the login page or the home page, and the
\* request that follows a redirect with the session of the request
\* redirected is allowed, with no further redirect.
C23_AuthorizedByLoginAndPath ==
    /\ Decided /\ ~IsLoggedIn(page.auth) /\ OnDashboard =>
          page.verdict = "false" /\ page.view = "redirect to /login"
    /\ Decided /\ IsLoggedIn(page.auth) /\ OnDashboard =>
          page.verdict = "true" /\ page.view \notin {"redirect to /login", "redirect to /dashboard"}
    /\ Decided /\ IsLoggedIn(page.auth) /\ ~OnDashboard =>
          page.verdict = "redirect" /\ page.view = "redirect to /dashboard"
    /\ Decided /\ ~IsLoggedIn(page.auth) /\ ~OnDashboard =>
          page.verdict = "true" /\ page.view \notin {"redirect to /login", "redirect to /dashboard"}
    /\ page.route \in {"login", "home"} => ~IsLoggedIn(page.auth)
    /\ page.hops >= 1 =>
          /\ page.path \in {PathOf(<<LoginSegment>>), PathOf(<<DashboardSegment>>)}
          /\ page.redirected = page.auth =>
                /\ page.verdict = "true"
                /\ page.pc = "Done"
                /\ page.view = "page"
                /\ IsLoggedIn(page.auth) <=> page.route = "dashboard"
                /\ ~IsLoggedIn(page.auth) <=> page.route = "login"

\* The user signed in requested the login page, was redirected to
\* /dashboard, followed the redirect and was shown the dashboard.
C23_Witness ==
    /\ page.pc = "Done"
    /\ page.hops = 1
    /\ page.redirected = AuthOf(Str(UserEmail))
    /\ page.auth = AuthOf(Str(UserEmail))
    /\ page.path = PathOf(<<DashboardSegment>>)
    /\ page.verdict = "true"
    /\ page.route = "dashboard"
    /\ page.view = "page"

----------------------------------------------------------------------------
(* Properties of the form *)

\* The messages the errors of the form's state hold for a field.
MessagesFor(id) ==
    IF ~form.state.hasErrors THEN << >>
    ELSE IF id \notin DOMAIN form.state.errors THEN << >>
    ELSE form.state.errors[id]

\* C19: ErrorMessages renders, for the field id, exactly the messages of
\* errors[id], one paragraph for each in the order of the list, and nothing
\* of another field; it renders no paragraph, and does not fail, when
\* errors is undefined or has no entry for id.
C19_ErrorMessagesRendersField ==
    \A id \in FieldNames :
        form.rendered # NotRendered =>
        LET shown == form.rendered[id].children
        IN  /\ form.rendered[id].id = ContainerId(id)
            /\ Len(shown) = Len(MessagesFor(id))
            /\ \A i \in 1..Len(shown) :
                  shown[i].tag = "p" /\ shown[i].text = MessagesFor(id)[i]
            /\ ~form.state.hasErrors \/ id \notin DOMAIN form.state.errors => shown = << >>

\* The form shows the two messages of amount in their order, none for
\* customerId, which has no entry, and the one of status.
C19_Witness ==
    /\ form.rendered # NotRendered
    /\ form.state.hasErrors
    /\ DOMAIN form.state.errors = {"amount", "status"}
    /\ form.state.errors["amount"] =
         <<"Please enter an amount greater than $0.", "Please select a customer.">>
    /\ form.state.errors["status"] = <<"Please select a customer.">>
    /\ Len(form.rendered["amount"].children) = 2
    /\ form.rendered["amount"].children[1].text = "Please enter an amount greater than $0."
    /\ form.rendered["customerId"].children = << >>
    /\ Len(form.rendered["status"].children) = 1

\* The messages of the two returns of createInvoice and of updateInvoice.
ValidationMessages ==
    {"Missing Fields. Failed to Create Invoice.", "Missing Fields. Failed to Update Invoice."}

PersistenceMessages ==
    {"Database Error: Failed to Create Invoice.", "Database Error: Failed to Update Invoice."}

\* The result has the shape of a validation failure: a non-empty errors
\* mapping over the three fields, each with its messages, and the message.
ValidationFailureShape(result) ==
    /\ result.hasErrors
    /\ DOMAIN result.errors # {}
    /\ DOMAIN result.errors \subseteq {"customerId", "amount", "status"}
    /\ \A id \in DOMAIN result.errors : Len(result.errors[id]) > 0
    /\ result.message \in ValidationMessages

\* The result has the shape of a persistence failure: the message and no
\* errors mapping.
PersistenceFailureShape(result) ==
    /\ ~result.hasErrors
    /\ result.message \in PersistenceMessages

\* The form shows a field message.
ShowsFieldMessages ==
    \E id \in FieldNames : form.rendered[id].children # << >>

\* C20: every result createInvoice or updateInvoice returns to the form has
\* one of two shapes: after a validation failure a non-empty errors mapping
\* with keys among customerId, amount and status together with a message,
\* after a persistence failure a message and no errors mapping; the form,
\* holding such a result or its initial state {message: null, errors: {}},
\* shows field messages only when it holds the result of a validation
\* failure.
C20_ResultShapes ==
    /\ \A r \in Slots :
          runs[r].kind \in FormKinds =>
            /\ runs[r].pc = "Invalid" =>
                  /\ runs[r].result.outcome = "returned"
                  /\ ValidationFailureShape(runs[r].result)
            /\ runs[r].pc = "PersistFailed" =>
                  /\ runs[r].result.outcome = "returned"
                  /\ PersistenceFailureShape(runs[r].result)
            /\ runs[r].result.outcome = "returned" =>
                  runs[r].pc \in {"Invalid", "PersistFailed"}
    /\ \/ form.state = InitialState
       \/ ValidationFailureShape(form.state)
       \/ PersistenceFailureShape(form.state)
    /\ ShowsFieldMessages <=> ValidationFailureShape(form.state)
    /\ form.state = InitialState => ~ShowsFieldMessages

\* The form holds the result of a persistence failure and shows no field
\* message, and the next submission has failed validation with errors of
\* two fields.
C20_Witness ==
    /\ PersistenceFailureShape(form.state)
    /\ form.state.outcome = "returned"
    /\ ~ShowsFieldMessages
    /\ runs[1].pc = "Invalid"
    /\ Cardinality(DOMAIN runs[1].result.errors) >= 2

====
